---- MODULE Spec2Model ----
(***************************************************************************)
(* Model of the HPC status dashboard (dashboard_server.py,                 *)
(* dashboard_data.py) and of the cluster monitor (cluster_monitor.py).     *)
(*                                                                         *)
(* Spec      : DashboardState with its two locks, the startup refresh of   *)
(*             run_server, the RefreshWorker thread and the request        *)
(*             threads of the ThreadingHTTPServer.                         *)
(* SpecFleet : one run of ClusterMonitor (full cycle, fast watch, the      *)
(*             writes of cluster_usage.json) next to a request thread      *)
(*             that serves /api/cluster-usage from that file.              *)
(* SpecMonitor : that run of ClusterMonitor alone, begun with or without   *)
(*             the file of an earlier run; SpecMonitorLive adds weak       *)
(*             fairness of its steps.                                      *)
(* SpecCollect : one call of process_single_cluster, for every outcome of  *)
(*             its two pw ssh commands and every output text of the        *)
(*             bounded vocabulary, parsed as the parsers parse it.         *)
(* SpecEnumerate : one parse of the table of pw clusters ls.               *)
(* SpecRetry : the main thread, the RefreshWorker and the                  *)
(*             ClusterMonitorWorker with their stop events, under weak     *)
(*             fairness of the workers' steps.                             *)
(* SpecScan  : one call of process_single_cluster on usage tables of       *)
(*             headers, separators and rows.                               *)
(* SpecProfiles : one call of _build_cluster_profiles.                     *)
(* SpecSummary : one call of build_payload with its _status_summary.       *)
(*                                                                         *)
(* A Python Optional is a sequence of length 0 (None) or 1.                *)
(***************************************************************************)
EXTENDS Integers, Sequences, FiniteSets, TLC

None == << >>
Some(x) == << x >>

(***************************************************************************)
(* Bounds of the model.                                                    *)
(***************************************************************************)
\* acquisitions of the refresh lock in a run of the server, the startup refresh included
MaxFlights == 3

(***************************************************************************)
(* Threads of dashboard_server.py.                                         *)
(***************************************************************************)
Main == "main"
Worker == "worker"
\* the ThreadingHTTPServer runs every request on a thread of its own: the threads
\* of the POST /api/refresh requests and of the GET /api/status requests
Handlers == {"h1"}
Readers == {"r1"}
Threads == {Main, Worker} \cup Handlers \cup Readers

VARIABLES
    \* DashboardState
    payload,            \* self._payload
    last_error,         \* self._last_error
    last_refresh_ts,    \* self._last_refresh_ts
    payload_lock,       \* self._payload_lock: None or Some(holder)
    refresh_lock,       \* self._refresh_lock: None or Some(holder)
    status_file,        \* public/data/status.json
    \* per thread
    pc,                 \* position of each thread
    blocking,           \* refresh(): the blocking argument
    new_payload,        \* refresh(): the local `payload`
    exc,                \* refresh(): str(exc) of the exception being handled
    ret,                \* refresh(): the returned (ok, detail)
    snap,               \* snapshot(): the tuple being built
    \* history
    flight,             \* acquisitions of the refresh lock so far; the n-th acquisition
                        \* runs the n-th producer execution, at time n
    arrived_in,         \* the flight in progress when the thread made its call (0: none)
    before,             \* the cache triple when the refresh lock was last acquired
    last_commit         \* the cache triple after the last completed commit / failure record

VARIABLES
    \* ClusterMonitor (one run of cluster_monitor.py)
    mpc,                \* position of the monitor
    active_clusters,    \* what get_active_clusters returned last (line 421, line 502)
    pw_result,          \* how its pw clusters ls command ended
    clusters,           \* the list being processed (clusters, line 429; new_clusters, line 511)
    idx,                \* index of the endpoint being processed
    results,            \* the results dict, in insertion order: << <<name, document>>, ... >>
    known_clusters,     \* self.known_clusters
    now,                \* time.time(), seconds since the fast watch began
    save_from,          \* save_results_to_json: where it was called from
    save_k,             \* save_results_to_json: documents written so far
    save_ret,           \* what save_results_to_json returned last
    usage_file,         \* public/data/cluster_usage.json
    run_result,         \* what run() returned
    \* the request thread of GET /api/cluster-usage
    rpc,                \* its position
    r_payload,          \* what _load_cluster_usage_payload returned
    r_response,         \* the response sent
    \* history
    r_prev,             \* the last completely written snapshot when the request looked for the file
    persisted           \* the last completely written snapshot

VARIABLES
    \* process_single_cluster (one call)
    cpc,                \* position of the call
    cluster,            \* its argument
    usage_run,          \* how its pw ssh show_usage command ends
    queue_run,          \* how its pw ssh show_queues command ends
    calls,              \* the commands issued so far
    usage_data,         \* the local usage_data
    queue_data,         \* the local queue_data
    cluster_data,       \* the returned document
    \* get_active_clusters (the parse of one table)
    epc,                \* position of the call
    pw_stdout,          \* result.stdout of pw clusters ls
    table_clusters      \* the parsed endpoints

pvars == << cpc, cluster, usage_run, queue_run, calls, usage_data, queue_data,
            cluster_data, epc, pw_stdout, table_clusters >>

VARIABLES
    \* the worker threads of dashboard_server.py
    refresh_stop,       \* RefreshWorker._stop_event
    monitor_stop,       \* ClusterMonitorWorker._stop_event
    cm_pc,              \* position of the ClusterMonitorWorker
    cm_runs,            \* runs of cluster_monitor.py it has made
    cm_last,            \* how the last of them ended
    cm_active,          \* processes of cluster_monitor.py that are running
    cm_interval         \* ClusterMonitorWorker.interval

wvars == << refresh_stop, monitor_stop, cm_pc, cm_runs, cm_last, cm_active,
            cm_interval >>

VARIABLES
    \* the derived views (one call)
    view_pc,            \* which view is computed, and whether it has been
    view_input,         \* its argument
    view_output         \* its result

avars == << view_pc, view_input, view_output >>

fvars == << mpc, active_clusters, pw_result, clusters, idx, results,
            known_clusters, now, save_from, save_k, save_ret, usage_file, run_result,
            rpc, r_payload, r_response, r_prev, persisted >>

dvars == << payload, last_error, last_refresh_ts, payload_lock, refresh_lock,
            status_file, pc, blocking, new_payload, exc, ret,
            snap, flight, arrived_in, before, last_commit >>

Cache == << payload, last_error, last_refresh_ts >>

NoRet == [ok |-> FALSE, detail |-> "", exc |-> None]
NoSnap == << None, None, None >>

\* pcs of a thread that holds, or is about to release, the refresh lock
ProducerPcs == {"generate", "write"}
CommitPcs == {"commit_lock", "commit_payload", "commit_error", "commit_ts"}
ExceptPcs == {"except_lock", "except_error"}
RefreshBodyPcs == ProducerPcs \cup CommitPcs \cup ExceptPcs \cup {"finally"}

(***************************************************************************)
(* status.json on disk: absent, a JSON document, or unparsable text.       *)
(***************************************************************************)
FileAbsent == [exists |-> FALSE, valid |-> FALSE, data |-> 0]
FileJson(p) == [exists |-> TRUE, valid |-> TRUE, data |-> p]
FilePartial == [exists |-> TRUE, valid |-> FALSE, data |-> 0]

\* DashboardState._load_existing
_load_existing(f) ==
    IF f.exists
    THEN IF f.valid THEN Some(f.data) ELSE None
    ELSE None

(***************************************************************************)
(* Initial state: DashboardState.__init__ has run (run_server, line 535),  *)
(* the main thread is about to make the startup refresh, no other thread   *)
(* has been started.                                                       *)
(***************************************************************************)
DInit ==
    /\ status_file \in {FileAbsent, FileJson(0), FilePartial}
    /\ payload = _load_existing(status_file)
    /\ last_error = None
    /\ last_refresh_ts = None
    /\ payload_lock = None
    /\ refresh_lock = None
    /\ pc = [t \in Threads |-> IF t = Main THEN "startup" ELSE "not_started"]
    /\ blocking = [t \in Threads |-> TRUE]
    /\ new_payload = [t \in Threads |-> None]
    /\ exc = [t \in Threads |-> None]
    /\ ret = [t \in Threads |-> NoRet]
    /\ snap = [t \in Threads |-> NoSnap]
    /\ flight = 0
    /\ arrived_in = [t \in Threads |-> 0]
    /\ before = NoSnap
    /\ last_commit = << _load_existing(status_file), None, None >>

\* a further call of refresh() may be made: every call in progress can still get
\* its acquisition of the refresh lock within the bound
CanCall == flight + Cardinality({t \in Threads : pc[t] = "acquire"}) < MaxFlights

\* a step of thread t that changes its position
Goto(t, from, to) ==
    /\ pc[t] = from
    /\ pc' = [pc EXCEPT ![t] = to]

\* the frame of a call of refresh(blocking=b): the thread is at line 61
CallFrame(t, b) ==
    /\ pc' = [pc EXCEPT ![t] = "acquire"]
    /\ blocking' = [blocking EXCEPT ![t] = b]
    /\ arrived_in' = [arrived_in EXCEPT ![t] = IF refresh_lock = None THEN 0 ELSE flight]

\* the frame of a call is dropped
DropFrame(t) ==
    /\ blocking' = [blocking EXCEPT ![t] = TRUE]
    /\ new_payload' = [new_payload EXCEPT ![t] = None]
    /\ exc' = [exc EXCEPT ![t] = None]
    /\ ret' = [ret EXCEPT ![t] = NoRet]
    /\ snap' = [snap EXCEPT ![t] = NoSnap]
    /\ arrived_in' = [arrived_in EXCEPT ![t] = 0]

\* run_server, line 543: ok, detail = state.refresh(blocking=True)
StartupRefresh ==
    /\ pc[Main] = "startup"
    /\ CallFrame(Main, TRUE)
    /\ UNCHANGED << payload, last_error, last_refresh_ts, payload_lock, refresh_lock,
                    status_file, new_payload, exc, ret, snap, flight, before, last_commit >>
    /\ UNCHANGED << fvars, pvars, wvars, avars >>

\* run_server, lines 544-575: the detail is printed when not ok; worker.start(),
\* server.serve_forever()
StartThreads ==
    /\ pc[Main] = "returned"
    /\ pc' = [t \in Threads |->
                IF t = Main THEN "serving" ELSE IF t = Worker THEN "wait" ELSE "idle"]
    /\ DropFrame(Main)
    /\ UNCHANGED << payload, last_error, last_refresh_ts, payload_lock, refresh_lock,
                    status_file, flight, before, last_commit >>
    /\ UNCHANGED << fvars, pvars, wvars, avars >>

\* RefreshWorker.run, lines 97-98: the event is not set and the wait timed out,
\* self.state.refresh(blocking=True)
WorkerRefresh ==
    /\ pc[Worker] = "wait"
    /\ ~refresh_stop
    /\ CanCall
    /\ CallFrame(Worker, TRUE)
    /\ UNCHANGED << payload, last_error, last_refresh_ts, payload_lock, refresh_lock,
                    status_file, new_payload, exc, ret, snap, flight, before, last_commit >>
    /\ UNCHANGED << fvars, pvars, wvars, avars >>

\* DashboardRequestHandler._handle_refresh, line 246: state.refresh(blocking=True)
HandleRefresh(t) ==
    /\ pc[t] = "idle"
    /\ pc[Main] = "serving"
    /\ CanCall
    /\ CallFrame(t, TRUE)
    /\ UNCHANGED << payload, last_error, last_refresh_ts, payload_lock, refresh_lock,
                    status_file, new_payload, exc, ret, snap, flight, before, last_commit >>
    /\ UNCHANGED << fvars, pvars, wvars, avars >>

\* DashboardState.refresh, line 60: a call refresh(blocking=False) on a request thread
RefreshNonBlocking(t) ==
    /\ pc[t] = "idle"
    /\ pc[Main] = "serving"
    /\ CanCall
    /\ CallFrame(t, FALSE)
    /\ UNCHANGED << payload, last_error, last_refresh_ts, payload_lock, refresh_lock,
                    status_file, new_payload, exc, ret, snap, flight, before, last_commit >>
    /\ UNCHANGED << fvars, pvars, wvars, avars >>

(***************************************************************************)
(* DashboardState.refresh, lines 60-80.                                    *)
(***************************************************************************)
\* RefreshAcquire with the test of the lock left out: the caller goes on whoever
\* holds the lock
RefreshAcquire_IgnoresLock(t) ==
    /\ Goto(t, "acquire", "generate")
    /\ refresh_lock' = Some(t)
    /\ flight' = flight + 1
    /\ before' = Cache
    /\ UNCHANGED << payload, last_error, last_refresh_ts, payload_lock, status_file,
                    blocking, new_payload, exc, ret, snap, arrived_in, last_commit >>
    /\ UNCHANGED << fvars, pvars, wvars, avars >>

\* RefreshAcquire taking the payload lock as well, for the whole refresh
RefreshAcquire_HoldsPayloadLock(t) ==
    /\ Goto(t, "acquire", "generate")
    /\ refresh_lock = None
    /\ payload_lock = None
    /\ refresh_lock' = Some(t)
    /\ payload_lock' = Some(t)
    /\ flight' = flight + 1
    /\ before' = Cache
    /\ UNCHANGED << payload, last_error, last_refresh_ts, status_file,
                    blocking, new_payload, exc, ret, snap, arrived_in, last_commit >>
    /\ UNCHANGED << fvars, pvars, wvars, avars >>

\* line 61: self._refresh_lock.acquire(blocking=blocking) succeeds.
\* A blocking caller that finds the lock held stays at "acquire".
RefreshAcquire(t) ==
    /\ Goto(t, "acquire", "generate")
    /\ refresh_lock = None
    /\ refresh_lock' = Some(t)
    /\ flight' = flight + 1
    /\ before' = Cache
    /\ UNCHANGED << payload, last_error, last_refresh_ts, payload_lock, status_file,
                    blocking, new_payload, exc, ret, snap, arrived_in, last_commit >>
    /\ UNCHANGED << fvars, pvars, wvars, avars >>

\* RefreshBusy recording the refusal as the cache's error
RefreshBusy_RecordsError(t) ==
    /\ Goto(t, "acquire", "returned")
    /\ ~blocking[t]
    /\ refresh_lock # None
    /\ last_error' = Some([kind |-> "busy", run |-> flight])
    /\ ret' = [ret EXCEPT ![t] =
                 [ok |-> FALSE, detail |-> "Refresh already in progress.", exc |-> None]]
    /\ UNCHANGED << payload, last_refresh_ts, payload_lock, refresh_lock, status_file,
                    blocking, new_payload, exc, snap, flight, arrived_in, before,
                    last_commit >>
    /\ UNCHANGED << fvars, pvars, wvars, avars >>

\* lines 61-62: acquire(blocking=False) fails: return False, "Refresh already in progress."
RefreshBusy(t) ==
    /\ Goto(t, "acquire", "returned")
    /\ ~blocking[t]
    /\ refresh_lock # None
    /\ ret' = [ret EXCEPT ![t] =
                 [ok |-> FALSE, detail |-> "Refresh already in progress.", exc |-> None]]
    /\ UNCHANGED << payload, last_error, last_refresh_ts, payload_lock, refresh_lock,
                    status_file, blocking, new_payload, exc, snap, flight, arrived_in,
                    before, last_commit >>
    /\ UNCHANGED << fvars, pvars, wvars, avars >>

\* lines 64-68: generate_payload(...) returns a payload or raises.
\* The payload of the n-th producer execution is n.
Generate(t) ==
    /\ pc[t] = "generate"
    /\ \/ /\ new_payload' = [new_payload EXCEPT ![t] = Some(flight)]
          /\ pc' = [pc EXCEPT ![t] = "write"]
          /\ UNCHANGED exc
       \/ /\ exc' = [exc EXCEPT ![t] = Some([kind |-> "generate", run |-> flight])]
          /\ pc' = [pc EXCEPT ![t] = "except_lock"]
          /\ UNCHANGED new_payload
    /\ UNCHANGED << payload, last_error, last_refresh_ts, payload_lock, refresh_lock,
                    status_file, blocking, ret, snap, flight, arrived_in, before,
                    last_commit >>
    /\ UNCHANGED << fvars, pvars, wvars, avars >>

\* line 69: write_payload(payload, self.output_path) writes the file, or raises
\* before the file is opened (mkdir) or after it was truncated (write_text).
Write(t) ==
    /\ pc[t] = "write"
    /\ \/ /\ status_file' = FileJson(new_payload[t][1])
          /\ pc' = [pc EXCEPT ![t] = "commit_lock"]
          /\ UNCHANGED exc
       \/ /\ status_file' \in {status_file, FilePartial}
          /\ exc' = [exc EXCEPT ![t] = Some([kind |-> "write", run |-> flight])]
          /\ pc' = [pc EXCEPT ![t] = "except_lock"]
    /\ UNCHANGED << payload, last_error, last_refresh_ts, payload_lock, refresh_lock,
                    blocking, new_payload, ret, snap, flight, arrived_in, before,
                    last_commit >>
    /\ UNCHANGED << fvars, pvars, wvars, avars >>

\* lines 70, 76 and 83: with self._payload_lock (enter)
PayloadLockAcquire(t, from, to) ==
    /\ Goto(t, from, to)
    /\ payload_lock = None
    /\ payload_lock' = Some(t)

\* line 70
CommitLock(t) ==
    /\ PayloadLockAcquire(t, "commit_lock", "commit_payload")
    /\ UNCHANGED << payload, last_error, last_refresh_ts, refresh_lock, status_file,
                    blocking, new_payload, exc, ret, snap, flight, arrived_in, before,
                    last_commit >>
    /\ UNCHANGED << fvars, pvars, wvars, avars >>

\* line 71: self._payload = payload
CommitPayload(t) ==
    /\ Goto(t, "commit_payload", "commit_error")
    /\ payload' = new_payload[t]
    /\ UNCHANGED << last_error, last_refresh_ts, payload_lock, refresh_lock, status_file,
                    blocking, new_payload, exc, ret, snap, flight, arrived_in, before,
                    last_commit >>
    /\ UNCHANGED << fvars, pvars, wvars, avars >>

\* CommitError leaving the error of an earlier failure in place
CommitError_KeepsError(t) ==
    /\ Goto(t, "commit_error", "commit_ts")
    /\ UNCHANGED << payload, last_error, last_refresh_ts, payload_lock, refresh_lock,
                    status_file, blocking, new_payload, exc, ret, snap, flight,
                    arrived_in, before, last_commit >>
    /\ UNCHANGED << fvars, pvars, wvars, avars >>

\* line 72: self._last_error = None
CommitError(t) ==
    /\ Goto(t, "commit_error", "commit_ts")
    /\ last_error' = None
    /\ UNCHANGED << payload, last_refresh_ts, payload_lock, refresh_lock, status_file,
                    blocking, new_payload, exc, ret, snap, flight, arrived_in, before,
                    last_commit >>
    /\ UNCHANGED << fvars, pvars, wvars, avars >>

\* lines 73-74: self._last_refresh_ts = time.time(); the with block ends;
\* return True, "Refreshed."
CommitTs(t) ==
    /\ Goto(t, "commit_ts", "finally")
    /\ last_refresh_ts' = Some(flight)
    /\ payload_lock' = None
    /\ ret' = [ret EXCEPT ![t] = [ok |-> TRUE, detail |-> "Refreshed.", exc |-> None]]
    /\ last_commit' = << payload, last_error, Some(flight) >>
    /\ UNCHANGED << payload, last_error, refresh_lock, status_file, blocking, new_payload,
                    exc, snap, flight, arrived_in, before >>
    /\ UNCHANGED << fvars, pvars, wvars, avars >>

\* ExceptLock discarding the payload of the failed refresh's predecessor
ExceptLock_ClearsPayload(t) ==
    /\ PayloadLockAcquire(t, "except_lock", "except_error")
    /\ payload' = None
    /\ UNCHANGED << last_error, last_refresh_ts, refresh_lock, status_file,
                    blocking, new_payload, exc, ret, snap, flight, arrived_in, before,
                    last_commit >>
    /\ UNCHANGED << fvars, pvars, wvars, avars >>

\* lines 75-76: except Exception as exc: with self._payload_lock
ExceptLock(t) ==
    /\ PayloadLockAcquire(t, "except_lock", "except_error")
    /\ UNCHANGED << payload, last_error, last_refresh_ts, refresh_lock, status_file,
                    blocking, new_payload, exc, ret, snap, flight, arrived_in, before,
                    last_commit >>
    /\ UNCHANGED << fvars, pvars, wvars, avars >>

\* ExceptError dropping the snapshot of the failed refresh's predecessor
ExceptError_DropsPayload(t) ==
    /\ Goto(t, "except_error", "finally")
    /\ payload' = None
    /\ last_error' = exc[t]
    /\ payload_lock' = None
    /\ ret' = [ret EXCEPT ![t] = [ok |-> FALSE, detail |-> "Refresh failed: ", exc |-> exc[t]]]
    /\ last_commit' = << None, exc[t], last_refresh_ts >>
    /\ UNCHANGED << last_refresh_ts, refresh_lock, status_file, blocking, new_payload,
                    exc, snap, flight, arrived_in, before >>
    /\ UNCHANGED << fvars, pvars, wvars, avars >>

\* lines 77-78: self._last_error = str(exc); the with block ends;
\* return False, f"Refresh failed: {exc}"
ExceptError(t) ==
    /\ Goto(t, "except_error", "finally")
    /\ last_error' = exc[t]
    /\ payload_lock' = None
    /\ ret' = [ret EXCEPT ![t] = [ok |-> FALSE, detail |-> "Refresh failed: ", exc |-> exc[t]]]
    /\ last_commit' = << payload, exc[t], last_refresh_ts >>
    /\ UNCHANGED << payload, last_refresh_ts, refresh_lock, status_file, blocking,
                    new_payload, exc, snap, flight, arrived_in, before >>
    /\ UNCHANGED << fvars, pvars, wvars, avars >>

\* Finally releasing the lock on the success path only
Finally_LeaksOnFailure(t) ==
    /\ Goto(t, "finally", "returned")
    /\ refresh_lock' = IF ret[t].ok THEN None ELSE refresh_lock
    /\ before' = NoSnap
    /\ UNCHANGED << payload, last_error, last_refresh_ts, payload_lock, status_file,
                    blocking, new_payload, exc, ret, snap, flight, arrived_in,
                    last_commit >>
    /\ UNCHANGED << fvars, pvars, wvars, avars >>

\* lines 79-80: finally: self._refresh_lock.release()
Finally(t) ==
    /\ Goto(t, "finally", "returned")
    /\ refresh_lock' = None
    /\ before' = NoSnap
    /\ UNCHANGED << payload, last_error, last_refresh_ts, payload_lock, status_file,
                    blocking, new_payload, exc, ret, snap, flight, arrived_in, last_commit >>
    /\ UNCHANGED << fvars, pvars, wvars, avars >>

\* Return ending the RefreshWorker's loop after a refresh that failed
Return_StopsAfterFailure(t) ==
    /\ t # Main
    /\ Goto(t, "returned", IF t = Worker THEN (IF ret[t].ok THEN "wait" ELSE "stopped")
                           ELSE "idle")
    /\ DropFrame(t)
    /\ UNCHANGED << payload, last_error, last_refresh_ts, payload_lock, refresh_lock,
                    status_file, flight, before, last_commit >>
    /\ UNCHANGED << fvars, pvars, wvars, avars >>

\* the caller has the result: _handle_refresh sends 200 or 503 (lines 247-250),
\* RefreshWorker.run goes back to its wait (line 97)
Return(t) ==
    /\ t # Main
    /\ Goto(t, "returned", IF t = Worker THEN "wait" ELSE "idle")
    /\ DropFrame(t)
    /\ UNCHANGED << payload, last_error, last_refresh_ts, payload_lock, refresh_lock,
                    status_file, flight, before, last_commit >>
    /\ UNCHANGED << fvars, pvars, wvars, avars >>

\* _handle_refresh, lines 247-248: the status of the response
_handle_refresh_status(r) == IF r.ok THEN 200 ELSE 503

(***************************************************************************)
(* DashboardState.snapshot, lines 82-84, called by _handle_status.         *)
(***************************************************************************)
\* _handle_status, line 229: payload, last_error, last_refresh_ts = state.snapshot()
HandleStatus(t) ==
    /\ pc[Main] = "serving"
    /\ Goto(t, "idle", "snap_lock")
    /\ arrived_in' = [arrived_in EXCEPT ![t] = IF refresh_lock = None THEN 0 ELSE flight]
    /\ UNCHANGED << payload, last_error, last_refresh_ts, payload_lock, refresh_lock,
                    status_file, blocking, new_payload, exc, ret, snap, flight, before,
                    last_commit >>
    /\ UNCHANGED << fvars, pvars, wvars, avars >>

\* SnapLock without the lock: the reads go on whoever holds it
SnapLock_NoLock(t) ==
    /\ Goto(t, "snap_lock", "snap_payload")
    /\ UNCHANGED << payload, last_error, last_refresh_ts, payload_lock, refresh_lock,
                    status_file, blocking, new_payload, exc, ret, snap, flight,
                    arrived_in, before, last_commit >>
    /\ UNCHANGED << fvars, pvars, wvars, avars >>

\* line 83: with self._payload_lock (enter)
SnapLock(t) ==
    /\ PayloadLockAcquire(t, "snap_lock", "snap_payload")
    /\ UNCHANGED << payload, last_error, last_refresh_ts, refresh_lock, status_file,
                    blocking, new_payload, exc, ret, snap, flight, arrived_in, before,
                    last_commit >>
    /\ UNCHANGED << fvars, pvars, wvars, avars >>

\* line 84: the three attribute loads of the returned tuple, one after another
SnapPayload(t) ==
    /\ Goto(t, "snap_payload", "snap_error")
    /\ snap' = [snap EXCEPT ![t][1] = payload]
    /\ UNCHANGED << payload, last_error, last_refresh_ts, payload_lock, refresh_lock,
                    status_file, blocking, new_payload, exc, ret, flight, arrived_in,
                    before, last_commit >>
    /\ UNCHANGED << fvars, pvars, wvars, avars >>

\* line 84
SnapError(t) ==
    /\ Goto(t, "snap_error", "snap_ts")
    /\ snap' = [snap EXCEPT ![t][2] = last_error]
    /\ UNCHANGED << payload, last_error, last_refresh_ts, payload_lock, refresh_lock,
                    status_file, blocking, new_payload, exc, ret, flight, arrived_in,
                    before, last_commit >>
    /\ UNCHANGED << fvars, pvars, wvars, avars >>

\* line 84
SnapTs(t) ==
    /\ Goto(t, "snap_ts", "snap_unlock")
    /\ snap' = [snap EXCEPT ![t][3] = last_refresh_ts]
    /\ UNCHANGED << payload, last_error, last_refresh_ts, payload_lock, refresh_lock,
                    status_file, blocking, new_payload, exc, ret, flight, arrived_in,
                    before, last_commit >>
    /\ UNCHANGED << fvars, pvars, wvars, avars >>

\* line 84: the with block ends, the tuple is returned
SnapUnlock(t) ==
    /\ Goto(t, "snap_unlock", "snap_done")
    /\ payload_lock' = None
    /\ UNCHANGED << payload, last_error, last_refresh_ts, refresh_lock, status_file,
                    blocking, new_payload, exc, ret, snap, flight, arrived_in, before,
                    last_commit >>
    /\ UNCHANGED << fvars, pvars, wvars, avars >>

\* _handle_status_response answering 503 whenever an error is recorded
_handle_status_response_ErrorFirst(s) ==
    IF s[1] = None \/ s[2] # None
    THEN [status |-> 503, body |-> None,
          error |-> IF s[2] = None THEN Some([kind |-> "Data not ready yet.", run |-> 0])
                    ELSE s[2],
          last_refresh_epoch |-> s[3]]
    ELSE [status |-> 200, body |-> s[1], error |-> None, last_refresh_epoch |-> None]

\* _handle_status, lines 230-237: 503 with the error when payload is None,
\* else 200 with the payload
_handle_status_response(s) ==
    IF s[1] = None
    THEN [status |-> 503, body |-> None,
          error |-> IF s[2] = None THEN Some([kind |-> "Data not ready yet.", run |-> 0])
                    ELSE s[2],
          last_refresh_epoch |-> s[3]]
    ELSE [status |-> 200, body |-> s[1], error |-> None, last_refresh_epoch |-> None]

\* _handle_status, lines 230-239: the response is sent
StatusRespond(t) ==
    /\ Goto(t, "snap_done", "idle")
    /\ _handle_status_response(snap[t]).status \in {200, 503}
    /\ DropFrame(t)
    /\ UNCHANGED << payload, last_error, last_refresh_ts, payload_lock, refresh_lock,
                    status_file, flight, before, last_commit >>
    /\ UNCHANGED << fvars, pvars, wvars, avars >>

DNext ==
    \/ StartupRefresh
    \/ StartThreads
    \/ WorkerRefresh
    \/ \E t \in Handlers : HandleRefresh(t)
    \/ \E t \in Handlers : RefreshNonBlocking(t)
    \/ \E t \in Threads : RefreshAcquire(t)
    \/ \E t \in Threads : RefreshBusy(t)
    \/ \E t \in Threads : Generate(t)
    \/ \E t \in Threads : Write(t)
    \/ \E t \in Threads : CommitLock(t)
    \/ \E t \in Threads : CommitPayload(t)
    \/ \E t \in Threads : CommitError(t)
    \/ \E t \in Threads : CommitTs(t)
    \/ \E t \in Threads : ExceptLock(t)
    \/ \E t \in Threads : ExceptError(t)
    \/ \E t \in Threads : Finally(t)
    \/ \E t \in Threads : Return(t)
    \/ \E t \in Readers : HandleStatus(t)
    \/ \E t \in Readers : SnapLock(t)
    \/ \E t \in Readers : SnapPayload(t)
    \/ \E t \in Readers : SnapError(t)
    \/ \E t \in Readers : SnapTs(t)
    \/ \E t \in Readers : SnapUnlock(t)
    \/ \E t \in Readers : StatusRespond(t)

(***************************************************************************)
(* ClusterMonitor (cluster_monitor.py) and the /api/cluster-usage read     *)
(* path of dashboard_server.py.                                            *)
(***************************************************************************)
\* bound: the endpoints one enumeration lists
MaxEnumLen == 2

\* bound: the seconds the calls of one fast-watch poll take, when they do not
\* take the whole window
PollWork == 48

\* ClusterMonitor.__init__, lines 28-30
fast_watch_interval == 12
fast_watch_duration == 120
enable_fast_watch == fast_watch_interval > 0 /\ fast_watch_duration > 0

\* endpoint URIs, as their path segments: pw://u1/a, pw://u2/a, pw://u1/b
Uris == { <<"u1", "a">>, <<"u2", "a">>, <<"u1", "b">> }

\* the endpoints of type existing and status on that _parse_cluster_table finds
\* in the command's output (line 50), in table order
Enumerations == UNION { [1..n -> Uris] : n \in 0..MaxEnumLen }

\* subprocess.run of pw clusters ls (line 47): it ends with exit status 0 and a
\* table, or with another exit status (CalledProcessError, check=True), or
\* raises something else (the command is missing, ...)
PwOutcomes ==
    { [kind |-> "ok", rows |-> e] : e \in Enumerations }
        \cup { [kind |-> k, rows |-> << >>] : k \in {"exit_nonzero", "exception"} }

\* get_active_clusters propagating the failure of its command
get_active_clusters_Propagates(o) ==
    [raised |-> o.kind # "ok", clusters |-> o.rows]

\* get_active_clusters, lines 38-58: the parsed endpoints; both except clauses
\* return []
get_active_clusters(o) ==
    [raised |-> FALSE, clusters |-> IF o.kind = "ok" THEN o.rows ELSE << >>]

\* lines 430 and 448: cluster['uri'].split('/')[-1]
cluster_name(uri) == uri[Len(uri)]

\* process_single_cluster, lines 463-473: the document; usage_data and
\* queue_data are the parsed dict (TRUE) or {} after a failed query (FALSE);
\* the timestamp is left out
Document(uri, usage_ok, queue_ok) ==
    [name |-> cluster_name(uri), uri |-> uri, status |-> "on", type |-> "existing",
     usage_data |-> usage_ok, queue_data |-> queue_ok]

\* DictSet keeping the document a name already has
DictSet_KeepsFirst(d, k, v) ==
    IF \E i \in 1..Len(d) : d[i][1] = k THEN d ELSE Append(d, << k, v >>)

\* results[name] = document on a dict in insertion order
DictSet(d, k, v) ==
    IF \E i \in 1..Len(d) : d[i][1] = k
    THEN [i \in 1..Len(d) |-> IF d[i][1] = k THEN << k, v >> ELSE d[i]]
    ELSE Append(d, << k, v >>)

\* line 482: list(results.values())
DictValues(d) == [i \in 1..Len(d) |-> d[i][2]]

\* cluster_usage.json: absent, or the text written so far of json.dump of a
\* list: the opening bracket, the documents, the closing bracket
UsageAbsent == [exists |-> FALSE, begun |-> FALSE, docs |-> << >>, ended |-> FALSE]
UsageEmpty == [exists |-> TRUE, begun |-> FALSE, docs |-> << >>, ended |-> FALSE]
UsageJson(docs) == [exists |-> TRUE, begun |-> TRUE, docs |-> docs, ended |-> TRUE]

\* the snapshot an earlier run of the monitor left on disk
OldSnapshot == << Document(<<"u0", "a">>, TRUE, TRUE) >>

\* process_single_cluster, lines 449-456: the outcomes of the usage query and
\* of the queue query: the cluster answers both, or is out of reach
QueryOutcomes == { << TRUE, TRUE >>, << FALSE, FALSE >> }

\* json.loads of the file's text (line 425): the list, or an exception (None)
\* when the text is not a complete JSON document
json_loads(f) == IF f.begun /\ f.ended THEN Some(f.docs) ELSE None

FInit ==
    /\ mpc = "run"
    /\ active_clusters = << >>
    /\ pw_result = "none"
    /\ clusters = << >>
    /\ idx = 0
    /\ results = << >>
    /\ known_clusters = {}
    /\ now = 0
    /\ save_from = "none"
    /\ save_k = 0
    /\ save_ret = "none"
    /\ usage_file \in {UsageAbsent, UsageJson(OldSnapshot)}
    /\ run_result = "none"
    /\ rpc = "idle"
    /\ r_payload = None
    /\ r_response = [status |-> 0, clusters |-> << >>]
    /\ r_prev = None
    /\ persisted = json_loads(usage_file)

\* process_clusters_round_robin, lines 418-426: get_active_clusters(); an empty
\* list ends the cycle with empty results; an exception would leave run()
FullEnumerate ==
    /\ mpc = "run"
    /\ \E o \in PwOutcomes :
          LET r == get_active_clusters(o)
          IN  /\ pw_result' = o.kind
              /\ active_clusters' = IF r.raised THEN << >> ELSE r.clusters
              /\ clusters' = IF r.raised THEN << >> ELSE r.clusters
              /\ idx' = IF r.raised \/ r.clusters = << >> THEN 0 ELSE 1
              /\ mpc' = CASE r.raised -> "crashed"
                          [] r.clusters = << >> -> "cycle_done"
                          [] OTHER -> "collect"
    /\ UNCHANGED << results, known_clusters, now, save_from, save_k, save_ret,
                    usage_file, run_result, rpc, r_payload, r_response, r_prev,
                    persisted >>
    /\ UNCHANGED << dvars, pvars, wvars, avars >>

\* Collected leaving the URI out of the known set in the fast watch
Collected_ForgetsUri(usage_ok, queue_ok) ==
    LET uri == clusters[idx]
        doc == Document(uri, usage_ok, queue_ok)
    IN  /\ results' = DictSet(results, doc.name, doc)
        /\ known_clusters' = IF mpc = "fw_collect" THEN known_clusters
                             ELSE known_clusters \cup {uri}
        /\ idx' = IF idx = Len(clusters) THEN 0 ELSE idx + 1
        /\ clusters' = IF idx = Len(clusters) THEN << >> ELSE clusters

\* Collected storing the document and the URI only when a query succeeded
Collected_OnlyOnSuccess(usage_ok, queue_ok) ==
    LET uri == clusters[idx]
        doc == Document(uri, usage_ok, queue_ok)
    IN  /\ results' = IF usage_ok \/ queue_ok THEN DictSet(results, doc.name, doc)
                      ELSE results
        /\ known_clusters' = IF usage_ok \/ queue_ok THEN known_clusters \cup {uri}
                             ELSE known_clusters
        /\ idx' = IF idx = Len(clusters) THEN 0 ELSE idx + 1
        /\ clusters' = IF idx = Len(clusters) THEN << >> ELSE clusters

\* lines 432-435 and 512-515: process_single_cluster(cluster), whose two queries
\* each succeed or fail; results[name] = cluster_data; known_clusters.add(uri);
\* after the last endpoint the loop is over
Collected(usage_ok, queue_ok) ==
    LET uri == clusters[idx]
        doc == Document(uri, usage_ok, queue_ok)
    IN  /\ results' = DictSet(results, doc.name, doc)
        /\ known_clusters' = known_clusters \cup {uri}
        /\ idx' = IF idx = Len(clusters) THEN 0 ELSE idx + 1
        /\ clusters' = IF idx = Len(clusters) THEN << >> ELSE clusters

\* process_clusters_round_robin, lines 429-439: one iteration of the loop
CycleCollect ==
    /\ mpc = "collect"
    /\ \E o \in QueryOutcomes : Collected(o[1], o[2])
    /\ mpc' = IF idx = Len(clusters) THEN "cycle_done" ELSE "collect"
    /\ UNCHANGED << now, save_from, save_k, usage_file, run_result, rpc, r_payload,
                    r_response, r_prev, persisted >>
    /\ UNCHANGED << active_clusters, pw_result, save_ret >>
    /\ UNCHANGED << dvars, pvars, wvars, avars >>

\* RunSaveInitial going on to the fast watch without the save
RunSaveInitial_SkipsSave ==
    /\ mpc = "cycle_done"
    /\ mpc' = "fw_enter"
    /\ UNCHANGED << clusters, idx, results, known_clusters, now, save_from, save_k,
                    usage_file, run_result, rpc, r_payload, r_response, r_prev, persisted >>
    /\ UNCHANGED << active_clusters, pw_result, save_ret >>
    /\ UNCHANGED << dvars, pvars, wvars, avars >>

\* RunSaveInitial saving whatever the cycle returned, the empty dict too
RunSaveInitial_SavesEmpty ==
    /\ mpc = "cycle_done"
    /\ mpc' = "save_open"
    /\ save_from' = "run_initial"
    /\ UNCHANGED << clusters, idx, results, known_clusters, now, save_k, usage_file,
                    run_result, rpc, r_payload, r_response, r_prev, persisted >>
    /\ UNCHANGED << active_clusters, pw_result, save_ret >>
    /\ UNCHANGED << dvars, pvars, wvars, avars >>

\* run, lines 531-535: if results: save_results_to_json(results); then the fast watch
RunSaveInitial ==
    /\ mpc = "cycle_done"
    /\ mpc' = IF results # << >> THEN "save_open" ELSE "fw_enter"
    /\ save_from' = IF results # << >> THEN "run_initial" ELSE save_from
    /\ UNCHANGED << clusters, idx, results, known_clusters, now, save_k, usage_file,
                    run_result, rpc, r_payload, r_response, r_prev, persisted >>
    /\ UNCHANGED << active_clusters, pw_result, save_ret >>
    /\ UNCHANGED << dvars, pvars, wvars, avars >>

\* save_results_to_json returns True (line 486) or False (line 489) to its caller
SaveReturn(ok) ==
    /\ mpc' = CASE save_from = "run_initial" -> "fw_enter"
                [] save_from = "fast_watch" -> "fw_loop"
                [] OTHER -> "done"
    /\ run_result' = IF save_from = "run_final" THEN "True" ELSE run_result
    /\ save_ret' = IF ok THEN "True" ELSE "False"
    /\ save_from' = "none"
    /\ save_k' = 0

\* save_results_to_json, lines 481-483: mkdir and open(path, 'w'), which truncates
\* the file; or one of them raises and False is returned (lines 487-489)
SaveOpen ==
    /\ mpc = "save_open"
    /\ \/ /\ usage_file' = UsageEmpty
          /\ mpc' = "save_dump"
          /\ UNCHANGED << save_from, save_k, save_ret, run_result >>
       \/ /\ SaveReturn(FALSE)
          /\ UNCHANGED usage_file
    /\ UNCHANGED << active_clusters, pw_result, clusters, idx, results, known_clusters,
                    now, rpc, r_payload, r_response, r_prev, persisted >>
    /\ UNCHANGED << dvars, pvars, wvars, avars >>

\* save_results_to_json, line 484: json.dump writes the text piece by piece: the
\* bracket, the documents, the bracket; after the last the file is closed and True
\* returned; or a write raises and False is returned (lines 487-489)
SaveDump ==
    /\ mpc = "save_dump"
    /\ \/ /\ ~usage_file.begun
          /\ usage_file' = [usage_file EXCEPT !.begun = TRUE]
          /\ UNCHANGED << mpc, save_from, save_k, save_ret, run_result, persisted >>
       \/ /\ usage_file.begun
          /\ save_k < Len(results)
          /\ usage_file' = [usage_file EXCEPT !.docs = Append(@, DictValues(results)[save_k + 1])]
          /\ save_k' = save_k + 1
          /\ UNCHANGED << mpc, save_from, save_ret, run_result, persisted >>
       \/ /\ usage_file.begun
          /\ save_k = Len(results)
          /\ usage_file' = [usage_file EXCEPT !.ended = TRUE]
          /\ persisted' = Some(DictValues(results))
          /\ SaveReturn(TRUE)
       \/ /\ SaveReturn(FALSE)
          /\ UNCHANGED << usage_file, persisted >>
    /\ UNCHANGED << active_clusters, pw_result, clusters, idx, results, known_clusters,
                    now, rpc, r_payload, r_response, r_prev >>
    /\ UNCHANGED << dvars, pvars, wvars, avars >>

\* monitor_new_clusters, lines 495-499: return results when the fast watch is
\* off, else end_time = time.time() + self.fast_watch_duration
FastWatchEnter ==
    /\ mpc = "fw_enter"
    /\ mpc' = IF enable_fast_watch THEN "fw_loop" ELSE "final"
    /\ UNCHANGED << clusters, idx, results, known_clusters, now, save_from, save_k,
                    usage_file, run_result, rpc, r_payload, r_response, r_prev, persisted >>
    /\ UNCHANGED << active_clusters, pw_result, save_ret >>
    /\ UNCHANGED << dvars, pvars, wvars, avars >>

\* monitor_new_clusters, lines 501-508, after the call of get_active_clusters
\* returned r: new_clusters (new) is looked at; none: continue; took is the time
\* the calls of this iteration take
Polled(o, r, new, took) ==
    /\ now' = now + fast_watch_interval + took
    /\ pw_result' = o.kind
    /\ active_clusters' = IF r.raised THEN << >> ELSE r.clusters
    /\ clusters' = IF r.raised THEN << >> ELSE new
    /\ idx' = IF r.raised \/ new = << >> THEN 0 ELSE 1
    /\ mpc' = CASE r.raised -> "crashed"
                [] new = << >> -> "fw_loop"
                [] OTHER -> "fw_collect"
    /\ save_ret' = "none"
    /\ UNCHANGED << results, known_clusters, save_from, save_k, usage_file, run_result,
                    rpc, r_payload, r_response, r_prev, persisted >>
    /\ UNCHANGED << dvars, pvars, wvars, avars >>

\* FastWatchPoll taking every enumerated endpoint for new
FastWatchPoll_NoFilter ==
    /\ mpc = "fw_loop"
    /\ now < fast_watch_duration
    /\ \E o \in PwOutcomes, took \in {PollWork, fast_watch_duration} :
          LET r == get_active_clusters(o)
          IN  Polled(o, r, r.clusters, took)

\* FastWatchPoll polling on after the window is over
FastWatchPoll_IgnoresBudget ==
    /\ mpc = "fw_loop"
    /\ \E o \in PwOutcomes, took \in {PollWork, fast_watch_duration} :
          LET r == get_active_clusters(o)
          IN  Polled(o, r, SelectSeq(r.clusters, LAMBDA u : u \notin known_clusters), took)

\* FastWatchPoll saving the results after a poll that found nothing new
FastWatchPoll_SavesAnyway ==
    /\ mpc = "fw_loop"
    /\ now < fast_watch_duration
    /\ \E o \in PwOutcomes, took \in {PollWork, fast_watch_duration} :
          LET r == get_active_clusters(o)
              new == SelectSeq(r.clusters, LAMBDA u : u \notin known_clusters)
          IN  /\ now' = now + fast_watch_interval + took
              /\ pw_result' = o.kind
              /\ active_clusters' = r.clusters
              /\ clusters' = new
              /\ idx' = IF new = << >> THEN 0 ELSE 1
              /\ mpc' = IF new = << >> THEN "save_open" ELSE "fw_collect"
              /\ save_from' = IF new = << >> THEN "fast_watch" ELSE save_from
              /\ save_ret' = "none"
    /\ UNCHANGED << results, known_clusters, save_k, usage_file, run_result,
                    rpc, r_payload, r_response, r_prev, persisted >>
    /\ UNCHANGED << dvars, pvars, wvars, avars >>

\* lines 500-508: while time.time() < end_time: sleep, get_active_clusters, the
\* endpoints whose uri is not known
FastWatchPoll ==
    /\ mpc = "fw_loop"
    /\ now < fast_watch_duration
    /\ \E o \in PwOutcomes, took \in {PollWork, fast_watch_duration} :
          LET r == get_active_clusters(o)
          IN  Polled(o, r, SelectSeq(r.clusters, LAMBDA u : u \notin known_clusters), took)

\* lines 511-516: one iteration of the loop over new_clusters; after the last,
\* save_results_to_json(results)
FastWatchCollect ==
    /\ mpc = "fw_collect"
    /\ \E o \in QueryOutcomes : Collected(o[1], o[2])
    /\ mpc' = IF idx = Len(clusters) THEN "save_open" ELSE "fw_collect"
    /\ save_from' = IF idx = Len(clusters) THEN "fast_watch" ELSE save_from
    /\ active_clusters' = << >>
    /\ pw_result' = "none"
    /\ UNCHANGED << now, save_k, save_ret, usage_file, run_result, rpc, r_payload,
                    r_response, r_prev, persisted >>
    /\ UNCHANGED << dvars, pvars, wvars, avars >>

\* lines 500 and 518-519: the window is over, return results
FastWatchExit ==
    /\ mpc = "fw_loop"
    /\ now >= fast_watch_duration
    /\ mpc' = "final"
    /\ active_clusters' = << >>
    /\ pw_result' = "none"
    /\ save_ret' = "none"
    /\ UNCHANGED << clusters, idx, results, known_clusters, now, save_from, save_k,
                    usage_file, run_result, rpc, r_payload, r_response, r_prev, persisted >>
    /\ UNCHANGED << dvars, pvars, wvars, avars >>

\* run, lines 537-543: if updated_results: save_results_to_json, return True;
\* else return False
RunFinal ==
    /\ mpc = "final"
    /\ mpc' = IF results # << >> THEN "save_open" ELSE "done"
    /\ save_from' = IF results # << >> THEN "run_final" ELSE save_from
    /\ run_result' = IF results # << >> THEN run_result ELSE "False"
    /\ UNCHANGED << clusters, idx, results, known_clusters, now, save_k, usage_file, rpc,
                    r_payload, r_response, r_prev, persisted >>
    /\ UNCHANGED << active_clusters, pw_result, save_ret >>
    /\ UNCHANGED << dvars, pvars, wvars, avars >>

\* _handle_cluster_usage, line 286, and _load_cluster_usage_payload, lines 422-423:
\* a GET /api/cluster-usage request; no file: the payload is None
UsageRequest ==
    /\ rpc = "idle"
    /\ rpc' = IF usage_file.exists THEN "read" ELSE "respond"
    /\ r_prev' = IF usage_file.exists THEN r_prev ELSE persisted
    /\ UNCHANGED << mpc, clusters, idx, results, known_clusters, now, save_from, save_k,
                    usage_file, run_result, r_payload, r_response, persisted >>
    /\ UNCHANGED << active_clusters, pw_result, save_ret >>
    /\ UNCHANGED << dvars, pvars, wvars, avars >>

\* _load_cluster_usage_payload, lines 424-432: json.loads(read_text()); the list
\* is returned as it is; an exception gives None
LoadRead ==
    /\ rpc = "read"
    /\ r_payload' = json_loads(usage_file)
    /\ r_prev' = persisted
    /\ rpc' = "respond"
    /\ UNCHANGED << mpc, clusters, idx, results, known_clusters, now, save_from, save_k,
                    usage_file, run_result, r_response, persisted >>
    /\ UNCHANGED << active_clusters, pw_result, save_ret >>
    /\ UNCHANGED << dvars, pvars, wvars, avars >>

\* _handle_cluster_usage, lines 287-294: 503 "Cluster usage data unavailable."
\* when the payload is None, else 200 with one profile per document
UsageRespond ==
    /\ rpc = "respond"
    /\ r_response' = IF r_payload = None
                     THEN [status |-> 503, clusters |-> << >>]
                     ELSE [status |-> 200, clusters |-> r_payload[1]]
    /\ rpc' = "responded"
    /\ UNCHANGED << mpc, clusters, idx, results, known_clusters, now, save_from, save_k,
                    usage_file, run_result, r_payload, r_prev, persisted >>
    /\ UNCHANGED << active_clusters, pw_result, save_ret >>
    /\ UNCHANGED << dvars, pvars, wvars, avars >>

\* the request thread ends
UsageDone ==
    /\ rpc = "responded"
    /\ rpc' = "idle"
    /\ r_payload' = None
    /\ r_response' = [status |-> 0, clusters |-> << >>]
    /\ r_prev' = None
    /\ UNCHANGED << mpc, clusters, idx, results, known_clusters, now, save_from, save_k,
                    usage_file, run_result, persisted >>
    /\ UNCHANGED << active_clusters, pw_result, save_ret >>
    /\ UNCHANGED << dvars, pvars, wvars, avars >>

FNext ==
    \/ FullEnumerate
    \/ CycleCollect
    \/ RunSaveInitial
    \/ SaveOpen
    \/ SaveDump
    \/ FastWatchEnter
    \/ FastWatchPoll
    \/ FastWatchCollect
    \/ FastWatchExit
    \/ RunFinal
    \/ UsageRequest
    \/ LoadRead
    \/ UsageRespond
    \/ UsageDone

\* the monitor alone
MNext ==
    \/ FullEnumerate
    \/ CycleCollect
    \/ RunSaveInitial
    \/ SaveOpen
    \/ SaveDump
    \/ FastWatchEnter
    \/ FastWatchPoll
    \/ FastWatchCollect
    \/ FastWatchExit
    \/ RunFinal

(***************************************************************************)
(* The text parsers of cluster_monitor.py.                                 *)
(*                                                                         *)
(* A command's output is a sequence of lines; a line of pw ssh output is   *)
(* the sequence of its whitespace-separated tokens (what line.split()      *)
(* returns), written with single spaces and no leading blank, so that a    *)
(* blank line is << >> and a line starts with the start of its first       *)
(* token.  Tokens come from a vocabulary; what Python reads off a token's  *)
(* characters (a prefix, a substring, int(), float()) is tabulated below   *)
(* for every token of the vocabulary.                                      *)
(***************************************************************************)
\* lines of one command output
MaxLines == 3
\* lines of a usage table scanned for its separators
MaxScan == 5

\* int(token), lines 319-323: the tokens int() accepts, with their values;
\* int() raises ValueError on every other token of the vocabulary
IntValue ==
    ("0" :> 0) @@ ("250" :> 250) @@ ("750" :> 750) @@ ("1000" :> 1000)
        @@ ("250000" :> 250000)

int(token) == IF token \in DOMAIN IntValue THEN Some(IntValue[token]) ELSE None

\* token.rstrip('%'), line 322
rstrip_percent(token) ==
    CASE token = "100.00%" -> "100.00"
      [] token = "N/A%" -> "N/A"
      [] OTHER -> token

\* float(token), line 322: the tokens float() accepts, with their values in
\* hundredths; every token int() accepts is one of them
FloatValue ==
    ("100.00" :> 10000) @@ ("75.00" :> 7500) @@ ("12.5" :> 1250)
        @@ [t \in DOMAIN IntValue |-> 100 * IntValue[t]]

float(token) == IF token \in DOMAIN FloatValue THEN Some(FloatValue[token]) ELSE None

\* the tokens of the vocabulary that start with a prefix (str.startswith)
Prefixed(prefix) ==
    CASE prefix = "=" -> {"========"}
      [] prefix = "-" -> {"--------", "----"}
      [] prefix = "--------" -> {"--------"}
      [] prefix = "|" -> {"|"}
      [] prefix = "+" -> {"+---+---+"}
      [] prefix = "System" -> {"System"}
      [] OTHER -> {}

startswith(line, prefix) == line # << >> /\ line[1] \in Prefixed(prefix)

\* the tokens of the vocabulary that contain a word (word in token); every other
\* word of the parsers occurs only as a whole token
Containing(word) ==
    CASE word = "+" -> {"+---+---+", "pw://u1/c++"}
      [] word = "TYPE" -> {"TYPE", "pw://u1/PROTOTYPE"}
      [] OTHER -> {word}

\* word in line, for a word without a blank
contains(line, word) == \E i \in 1..Len(line) : line[i] \in Containing(word)

\* "a b" in line, for two words separated by one blank
contains2(line, a, b) ==
    \E i \in 1..(Len(line) - 1) : line[i] = a /\ line[i + 1] = b

\* text.strip().split('\n'), lines 262 and 342: the blank lines at both ends
\* go; the empty text splits into one empty line
RECURSIVE lstrip_lines(_)
lstrip_lines(text) ==
    IF text # << >> /\ Head(text) = << >> THEN lstrip_lines(Tail(text)) ELSE text

RECURSIVE rstrip_lines(_)
rstrip_lines(text) ==
    IF text # << >> /\ text[Len(text)] = << >>
    THEN rstrip_lines(SubSeq(text, 1, Len(text) - 1))
    ELSE text

strip_split(text) ==
    LET t == rstrip_lines(lstrip_lines(text))
    IN  IF t = << >> THEN << << >> >> ELSE t

\* ' '.join(lines), lines 272 and 280: the tokens of the lines, in order
RECURSIVE join(_)
join(lines) == IF lines = << >> THEN << >> ELSE Head(lines) \o join(Tail(lines))

\* all texts of at most MaxLines lines drawn from a set of lines
Texts(lines) == UNION { [1..n -> lines] : n \in 0..MaxLines }

(***************************************************************************)
(* _parse_usage_output, lines 252-331                                      *)
(***************************************************************************)
UsageBanner == << "Fiscal", "Year", "2025" >>
UsageHeader == << "System", "Subproject", "Allocated", "Used", "Remaining" >>
UsageSeparator == << "========" >>
UsageRow == << "jean", "AFSNW27526RYZ", "250000", "0", "250000", "100.00%", "0" >>

\* the lines of show_usage outputs: the banner, the table header, a separator,
\* a blank line, the row of the canonical example, a row of 6 tokens, rows
\* with a token that is not a number, and a row of 8 tokens
UsageLines ==
    { UsageBanner, UsageHeader, UsageSeparator, << >>, UsageRow,
      << "jean", "AFSNW27526RYZ", "250000", "0", "250000", "100.00%" >>,
      << "narwhal", "AFSNW27526RYZ", "N/A", "0", "250000", "100.00%", "0" >>,
      << "narwhal", "AFSNW27526RYZ", "1000", "250", "750", "N/A%", "12.5" >>,
      << "narwhal", "AFSNW27526RYZ", "1000", "250", "750", "N/A%", "0" >>,
      << "narwhal", "AFSNW27526RYZ", "1000", "250", "750", "75.00", "0", "standard" >> }

\* lines 266-270: the lines before the first line that is blank or starts with
\* System or =
RECURSIVE header_lines(_)
header_lines(lines) ==
    IF lines = << >> THEN << >>
    ELSE LET line == Head(lines)
         IN  IF line # << >> /\ ~startswith(line, "System") /\ ~startswith(line, "=")
             THEN << line >> \o header_lines(Tail(lines))
             ELSE << >>

\* lines 276-278
fiscal_lines(lines) ==
    SelectSeq(lines, LAMBDA line : contains2(line, "Fiscal", "Year")
                                      \/ contains2(line, "Hours", "Remaining"))

\* line 290: the table header
is_usage_header(line) ==
    contains(line, "System") /\ contains(line, "Subproject") /\ contains(line, "Allocated")

\* line 299: a separator line
is_usage_separator(line) == startswith(line, "=") \/ startswith(line, "--------")

\* usage_row putting 0 where a token is not a number
usage_row_ZeroFills(parts) ==
    IF Len(parts) >= 7
    THEN LET zero(v) == IF v = None THEN 0 ELSE v[1]
         IN  Some([system |-> parts[1],
                   subproject |-> parts[2],
                   hours_allocated |-> zero(int(parts[3])),
                   hours_used |-> zero(int(parts[4])),
                   hours_remaining |-> zero(int(parts[5])),
                   percent_remaining |-> zero(float(rstrip_percent(parts[6]))),
                   background_hours_used |-> zero(int(parts[7]))])
    ELSE None

\* lines 313-328: the record of a row, or nothing when the row has fewer than 7
\* tokens or int() or float() raises ValueError
usage_row(parts) ==
    IF Len(parts) >= 7
    THEN LET allocated == int(parts[3])
             used == int(parts[4])
             remaining == int(parts[5])
             percent == float(rstrip_percent(parts[6]))
             background == int(parts[7])
         IN  IF None \in {allocated, used, remaining, percent, background}
             THEN None
             ELSE Some([system |-> parts[1],
                        subproject |-> parts[2],
                        hours_allocated |-> allocated[1],
                        hours_used |-> used[1],
                        hours_remaining |-> remaining[1],
                        percent_remaining |-> percent[1],
                        background_hours_used |-> background[1]])
    ELSE None

\* lines 288-328: the loop over the lines from line i on, with its flags
\* in_table (always equal to table_started) and separator_found, and the
\* records appended so far
\* a loop that leaves table mode at the second separator of a table
RECURSIVE usage_loop_SecondSeparatorEnds(_, _, _, _, _)
usage_loop_SecondSeparatorEnds(lines, i, in_table, separator_found, system_data) ==
    IF i > Len(lines) THEN system_data
    ELSE LET line == lines[i]
         IN  CASE is_usage_header(line) ->
                    usage_loop_SecondSeparatorEnds(lines, i + 1, TRUE, FALSE, system_data)
               [] ~is_usage_header(line) /\ in_table /\ is_usage_separator(line) ->
                    usage_loop_SecondSeparatorEnds(lines, i + 1, ~separator_found, TRUE,
                                                   system_data)
               [] ~is_usage_header(line) /\ in_table /\ ~is_usage_separator(line)
                     /\ line # << >> /\ separator_found ->
                    usage_loop_SecondSeparatorEnds(lines, i + 1, in_table, separator_found,
                                                   system_data \o usage_row(line))
               [] OTHER ->
                    usage_loop_SecondSeparatorEnds(lines, i + 1, in_table, separator_found,
                                                   system_data)

RECURSIVE usage_loop(_, _, _, _, _)
usage_loop(lines, i, in_table, separator_found, system_data) ==
    IF i > Len(lines) THEN system_data
    ELSE LET line == lines[i]
         IN  CASE is_usage_header(line) ->
                    usage_loop(lines, i + 1, TRUE, FALSE, system_data)
               [] ~is_usage_header(line) /\ in_table /\ is_usage_separator(line) ->
                    usage_loop(lines, i + 1, in_table, TRUE, system_data)
               [] ~is_usage_header(line) /\ in_table /\ ~is_usage_separator(line)
                     /\ line # << >> /\ separator_found ->
                    usage_loop(lines, i + 1, in_table, separator_found,
                               system_data \o usage_row(line))
               [] OTHER ->
                    usage_loop(lines, i + 1, in_table, separator_found, system_data)

_parse_usage_output(usage_output) ==
    LET lines == strip_split(usage_output)
    IN  [header |-> join(header_lines(lines)),
         fiscal_year_info |-> join(fiscal_lines(lines)),
         systems |-> usage_loop(lines, 1, FALSE, FALSE, << >>)]

(***************************************************************************)
(* _parse_queue_output, lines 333-411: the second definition of the class, *)
(* which replaces the one of lines 160-250                                 *)
(***************************************************************************)
QueueRow ==
    << "standard", "168:00:00", "N/A", "1000", "250000", "250", "0", "750", "250",
       "Exe", "Y", "N" >>
NodeRow == << "Standard", "1000", "250", "250000", "750", "0" >>

\* the lines of show_queues outputs: the two section headers, a column header,
\* a separator, a blank line, queue rows of 12 and of 10 tokens, a queue row
\* whose jobs_running is not a number, node rows of 6, 5 and 4 tokens, and a
\* node row whose nodes_available is not a number
QueueLines ==
    { << "QUEUE", "INFORMATION:" >>, << "NODE", "INFORMATION:" >>,
      << "Node", "Type", "Nodes" >>, << "--------" >>, << >>,
      QueueRow,
      << "debug", "1:00:00", "N/A", "1000", "1000", "0", "0", "0", "0", "Exe" >>,
      << "transfer", "48:00:00", "N/A", "1000", "1000", "N/A", "0", "0", "0",
         "Exe", "N", "Y" >>,
      NodeRow,
      << "GPU", "250", "250", "1000", "750" >>,
      << "Bigmem", "250", "250", "1000" >>,
      << "Login", "N/A", "250", "1000", "750", "0" >> }

\* lines 350 and 356: the lines that open a section
is_queue_header(line) ==
    contains2(line, "QUEUE", "INFORMATION:") \/ contains2(line, "Queue", "Name")

is_node_header(line) ==
    contains2(line, "NODE", "INFORMATION:") \/ contains2(line, "Node", "Type")

\* lines 364 and 391: separator lines and empty lines
is_skipped(line) ==
    startswith(line, "=") \/ startswith(line, "-") \/ startswith(line, "|")
        \/ line = << >>

\* lines 369-386: the record of a queue row, or nothing when the row has fewer
\* than 10 tokens; the fields are the tokens themselves
queue_row(parts) ==
    IF Len(parts) >= 10
    THEN Some([queue_name |-> parts[1],
               max_walltime |-> parts[2],
               max_jobs |-> parts[3],
               max_cores |-> parts[4],
               max_cores_per_job |-> parts[5],
               jobs_running |-> parts[6],
               jobs_pending |-> parts[7],
               cores_running |-> parts[8],
               cores_pending |-> parts[9],
               queue_type |-> parts[10]])
    ELSE None

\* lines 396-409: the record of a node row, or nothing when the row has fewer
\* than 5 tokens; cores_free is '0' when the row has no sixth token
node_row(parts) ==
    IF Len(parts) >= 5
    THEN Some([node_type |-> parts[1],
               nodes_available |-> parts[2],
               cores_per_node |-> parts[3],
               cores_available |-> parts[4],
               cores_running |-> parts[5],
               cores_free |-> IF Len(parts) > 5 THEN parts[6] ELSE "0"])
    ELSE None

\* lines 348-409: the loop over the lines from line i on, with the section it is
\* in ("none", "queue" or "node") and the records appended so far
RECURSIVE queue_loop(_, _, _, _, _)
queue_loop(lines, i, section, queues, nodes) ==
    IF i > Len(lines) THEN [queues |-> queues, nodes |-> nodes]
    ELSE LET line == lines[i]
         IN  CASE is_queue_header(line) ->
                    queue_loop(lines, i + 1, "queue", queues, nodes)
               [] ~is_queue_header(line) /\ is_node_header(line) ->
                    queue_loop(lines, i + 1, "node", queues, nodes)
               [] ~is_queue_header(line) /\ ~is_node_header(line)
                     /\ section = "queue" /\ ~is_skipped(line) ->
                    queue_loop(lines, i + 1, section, queues \o queue_row(line), nodes)
               [] ~is_queue_header(line) /\ ~is_node_header(line)
                     /\ section = "node" /\ ~is_skipped(line) ->
                    queue_loop(lines, i + 1, section, queues, nodes \o node_row(line))
               [] OTHER ->
                    queue_loop(lines, i + 1, section, queues, nodes)

_parse_queue_output(queue_output) ==
    queue_loop(strip_split(queue_output), 1, "none", << >>, << >>)

(***************************************************************************)
(* _parse_cluster_table, lines 60-106.  In the table of pw clusters ls     *)
(* the pipes stand between blanks, so a pipe is a token of its own.        *)
(***************************************************************************)
TableBorder == << "+---+---+" >>
TableHeader == << "|", "URI", "|", "STATUS", "|", "TYPE", "|" >>
TableRowOn == << "|", "pw://u1/jean", "|", "on", "|", "existing", "|" >>
TableRowCloud == << "|", "pw://u1/aws", "|", "off", "|", "cloud", "|" >>

\* the lines of pw clusters ls outputs: a border, the header, a blank line, the
\* two rows of the canonical example, an existing endpoint that is off, a
\* cloud endpoint that is on, a row of two columns, a row with an empty column,
\* a row of four columns without the outer pipes, and endpoints whose name
\* contains + or TYPE
TableLines ==
    { TableBorder, TableHeader, << >>, TableRowOn, TableRowCloud,
      << "|", "pw://u1/narwhal", "|", "off", "|", "existing", "|" >>,
      << "|", "pw://u2/aws", "|", "on", "|", "cloud", "|" >>,
      << "|", "pw://u1/narwhal", "|", "on", "|" >>,
      << "|", "pw://u2/jean", "|", "|", "on", "|", "existing", "|" >>,
      << "pw://u1/narwhal", "|", "on", "|", "existing", "|", "hpc" >>,
      << "|", "pw://u1/c++", "|", "on", "|", "existing", "|" >>,
      << "|", "pw://u1/PROTOTYPE", "|", "on", "|", "existing", "|" >> }

\* line 71: a separator line
is_table_border(line) ==
    startswith(line, "+") \/ (startswith(line, "|") /\ contains(line, "+"))

\* line 77: a header line
is_table_header(line) ==
    contains(line, "URI") \/ contains(line, "STATUS") \/ contains(line, "TYPE")

\* lines 69-80: the data lines
data_lines(lines) ==
    SelectSeq(lines, LAMBDA line : ~is_table_border(line) /\ line # << >>
                                      /\ ~is_table_header(line))

\* line 85: line.strip().strip('|').strip()
strip_pipe(line) ==
    LET l == IF line # << >> /\ Head(line) = "|" THEN Tail(line) ELSE line
    IN  IF l # << >> /\ l[Len(l)] = "|" THEN SubSeq(l, 1, Len(l) - 1) ELSE l

\* clean_line.split('|'), line 90, with each part stripped: cur is the part
\* being read
RECURSIVE split_pipe(_, _)
split_pipe(line, cur) ==
    IF line = << >> THEN << cur >>
    ELSE IF Head(line) = "|"
         THEN << cur >> \o split_pipe(Tail(line), << >>)
         ELSE split_pipe(Tail(line), Append(cur, Head(line)))

\* table_row keeping the existing endpoints whatever their status
table_row_AnyStatus(line) ==
    LET clean_line == strip_pipe(line)
        parts == SelectSeq(split_pipe(clean_line, << >>), LAMBDA part : part # << >>)
    IN  IF clean_line # << >> /\ Len(parts) >= 3 /\ parts[3] = << "existing" >>
        THEN << [uri |-> parts[1], status |-> parts[2], type |-> parts[3]] >>
        ELSE << >>

\* lines 85-104: the endpoint of a data line, or nothing; the empty parts are
\* left out before the parts are counted
table_row(line) ==
    LET clean_line == strip_pipe(line)
        parts == SelectSeq(split_pipe(clean_line, << >>), LAMBDA part : part # << >>)
    IN  IF clean_line # << >> /\ Len(parts) >= 3
              /\ parts[3] = << "existing" >> /\ parts[2] = << "on" >>
        THEN << [uri |-> parts[1], status |-> parts[2], type |-> parts[3]] >>
        ELSE << >>

RECURSIVE table_rows(_)
table_rows(lines) ==
    IF lines = << >> THEN << >>
    ELSE table_row(Head(lines)) \o table_rows(Tail(lines))

_parse_cluster_table(table_output) == table_rows(data_lines(strip_split(table_output)))

(***************************************************************************)
(* process_single_cluster, lines 441-473, with the two queries it makes    *)
(***************************************************************************)
\* the endpoints get_active_clusters returns
Endpoints == { [uri |-> u, status |-> "on", type |-> "existing"] : u \in Uris }

\* subprocess.run of a pw ssh command (lines 121 and 147): it ends with exit
\* status 0 and its output, or with another exit status (CalledProcessError,
\* check=True), or raises something else
Runs(lines) ==
    { [kind |-> "ok", stdout |-> t] : t \in Texts(lines) }
        \cup { [kind |-> k, stdout |-> << >>] : k \in {"exit_nonzero", "exception"} }

\* the runs one of which every collection of the model has on one side: the two
\* failures and the output of the canonical example
PlainUsageRuns ==
    { [kind |-> "ok", stdout |-> << UsageHeader, UsageSeparator, UsageRow >>] }
        \cup { [kind |-> k, stdout |-> << >>] : k \in {"exit_nonzero", "exception"} }

PlainQueueRuns ==
    { [kind |-> "ok", stdout |-> << << "QUEUE", "INFORMATION:" >>, QueueRow >>] }
        \cup { [kind |-> k, stdout |-> << >>] : k \in {"exit_nonzero", "exception"} }

\* get_cluster_usage, lines 112-132: None without a URI; the parsed output; None
\* from both except clauses
get_cluster_usage(cluster_uri, run) ==
    IF cluster_uri = << >> THEN None
    ELSE IF run.kind = "ok" THEN Some(_parse_usage_output(run.stdout)) ELSE None

\* get_cluster_queues, lines 138-158
get_cluster_queues(cluster_uri, run) ==
    IF cluster_uri = << >> THEN None
    ELSE IF run.kind = "ok" THEN Some(_parse_queue_output(run.stdout)) ELSE None

\* lines 463-473: the returned document; x or {} is x for a parsed dict, which
\* always has its keys, and {} (None here) for None; the timestamp is left out
ClusterData(c, usage, queue) ==
    [cluster_metadata |-> [name |-> cluster_name(c.uri), uri |-> c.uri,
                           status |-> c.status, type |-> c.type],
     usage_data |-> usage,
     queue_data |-> queue]

PIdle ==
    /\ cpc = "idle"
    /\ cluster = None
    /\ usage_run = None
    /\ queue_run = None
    /\ calls = << >>
    /\ usage_data = None
    /\ queue_data = None
    /\ cluster_data = None

EIdle ==
    /\ epc = "idle"
    /\ pw_stdout = << >>
    /\ table_clusters = << >>

\* a call of process_single_cluster(cluster) with the outcomes its two commands
\* are going to have
PInit ==
    /\ cpc = "start"
    /\ cluster \in Endpoints
    /\ \/ usage_run \in Runs(UsageLines) /\ queue_run \in PlainQueueRuns
       \/ usage_run \in PlainUsageRuns /\ queue_run \in Runs(QueueLines)
    /\ calls = << >>
    /\ usage_data = None
    /\ queue_data = None
    /\ cluster_data = None

\* the lines of a usage table: its header, separators of = and of eight -, a
\* line of four -, and the row of the canonical example
ScanLines ==
    { UsageHeader, UsageSeparator, << "--------" >>, << "----" >>, UsageRow }

\* one call whose show_usage output is a text of up to MaxScan of these lines
ScanInit ==
    /\ cpc = "start"
    /\ cluster = [uri |-> << "u1", "a" >>, status |-> "on", type |-> "existing"]
    /\ usage_run \in { [kind |-> "ok", stdout |-> t] :
                          t \in UNION { [1..n -> ScanLines] : n \in 0..MaxScan } }
    /\ queue_run = [kind |-> "ok", stdout |-> << << "QUEUE", "INFORMATION:" >>, QueueRow >>]
    /\ calls = << >>
    /\ usage_data = None
    /\ queue_data = None
    /\ cluster_data = None

\* CollectQueues leaving the queue query out after a failed usage query
CollectQueues_OnlyAfterUsage ==
    /\ cpc = "usage"
    /\ cpc' = "queues"
    /\ calls' = IF usage_data = None THEN calls ELSE Append(calls, "show_queues")
    /\ queue_data' = IF usage_data = None THEN None
                     ELSE get_cluster_queues(cluster.uri, queue_run)
    /\ UNCHANGED << cluster, usage_run, queue_run, usage_data, cluster_data >>
    /\ UNCHANGED << epc, pw_stdout, table_clusters >>
    /\ UNCHANGED << dvars, fvars, wvars, avars >>

\* line 449: usage_data = self.get_cluster_usage(cluster['uri'])
CollectUsage ==
    /\ cpc = "start"
    /\ cpc' = "usage"
    /\ calls' = IF cluster.uri = << >> THEN calls ELSE Append(calls, "show_usage")
    /\ usage_data' = get_cluster_usage(cluster.uri, usage_run)
    /\ UNCHANGED << cluster, usage_run, queue_run, queue_data, cluster_data >>
    /\ UNCHANGED << epc, pw_stdout, table_clusters >>
    /\ UNCHANGED << dvars, fvars, wvars, avars >>

\* line 456: queue_data = self.get_cluster_queues(cluster['uri'])
CollectQueues ==
    /\ cpc = "usage"
    /\ cpc' = "queues"
    /\ calls' = IF cluster.uri = << >> THEN calls ELSE Append(calls, "show_queues")
    /\ queue_data' = get_cluster_queues(cluster.uri, queue_run)
    /\ UNCHANGED << cluster, usage_run, queue_run, usage_data, cluster_data >>
    /\ UNCHANGED << epc, pw_stdout, table_clusters >>
    /\ UNCHANGED << dvars, fvars, wvars, avars >>

\* lines 463-473: the return
CollectReturn ==
    /\ cpc = "queues"
    /\ cpc' = "returned"
    /\ cluster_data' = Some(ClusterData(cluster, usage_data, queue_data))
    /\ UNCHANGED << cluster, usage_run, queue_run, calls, usage_data, queue_data >>
    /\ UNCHANGED << epc, pw_stdout, table_clusters >>
    /\ UNCHANGED << dvars, fvars, wvars, avars >>

PNext ==
    \/ CollectUsage
    \/ CollectQueues
    \/ CollectReturn

(***************************************************************************)
(* get_active_clusters, line 50: the table of pw clusters ls is parsed     *)
(***************************************************************************)
EInit ==
    /\ epc = "start"
    /\ pw_stdout \in Texts(TableLines)
    /\ table_clusters = << >>

\* line 50: clusters = self._parse_cluster_table(result.stdout)
EnumerateParse ==
    /\ epc = "start"
    /\ epc' = "parsed"
    /\ table_clusters' = _parse_cluster_table(pw_stdout)
    /\ UNCHANGED pw_stdout
    /\ UNCHANGED << cpc, cluster, usage_run, queue_run, calls, usage_data,
                    queue_data, cluster_data >>
    /\ UNCHANGED << dvars, fvars, wvars, avars >>

ENext ==
    \/ EnumerateParse

(***************************************************************************)
(* The derived views: _build_cluster_profiles of dashboard_server.py, read *)
(* by /api/cluster-usage, and _status_summary of dashboard_data.py, the    *)
(* "summary" of every payload.                                             *)
(*                                                                         *)
(* A value of cluster_usage.json is a number [number |-> n], a string      *)
(* [string |-> s], a list, an object or null (None).  Every number of the  *)
(* vocabulary is integral, so a float that holds one is written as that    *)
(* integer; a quotient x / y * 100 of two floats is kept as the exact      *)
(* fraction [num |-> x * 100, den |-> y].                                  *)
(***************************************************************************)
\* usage records, queue records and status rows of one input
MaxSystems == 2
MaxQueues == 3
MaxRows == 3

\* dict.get(key) of an object read from the file
get(record, key) == IF key \in DOMAIN record THEN record[key] ELSE None

\* lines 523-528: str(value) is the decimal text of a number, the string
\* itself, or 'None'; strip() and replace(",", "") act on the texts of the
\* vocabulary; float() accepts the texts of FloatOfText; every other text
\* raises ValueError and yields the default 0
_safe_number(value) ==
    LET NumberText ==
            (-250 :> "-250") @@ (0 :> "0") @@ (250 :> "250") @@ (1000 :> "1000")
        FloatOfText ==
            ("-250" :> -250) @@ ("0" :> 0) @@ ("2" :> 2) @@ ("5" :> 5)
                @@ ("40" :> 40) @@ ("100" :> 100) @@ ("250" :> 250)
                @@ ("1000" :> 1000)
        str == IF value = None THEN "None"
               ELSE IF "number" \in DOMAIN value THEN NumberText[value.number]
               ELSE value.string
        stripped == IF str = " 40 " THEN "40" ELSE str
        text == IF stripped = "1,000" THEN "1000" ELSE stripped
    IN  IF text \in DOMAIN FloatOfText THEN FloatOfText[text] ELSE 0

\* sum(...) of lines 462-464
RECURSIVE sum(_)
sum(numbers) ==
    IF numbers = << >> THEN 0 ELSE Head(numbers) + sum(Tail(numbers))

\* a percent_remaining that is a number only for a positive allocation
percent_remaining_PositiveOnly(total_remaining, total_allocated) ==
    IF total_allocated > 0
    THEN Some([num |-> total_remaining * 100, den |-> total_allocated])
    ELSE None

\* line 465
percent_remaining(total_remaining, total_allocated) ==
    IF total_allocated # 0
    THEN Some([num |-> total_remaining * 100, den |-> total_allocated])
    ELSE None

\* lines 468-490: the profile of one queue record
queue_profile(queue) ==
    LET running_jobs == _safe_number(get(queue, "jobs_running"))
        pending_jobs == _safe_number(get(queue, "jobs_pending"))
        running_cores == _safe_number(get(queue, "cores_running"))
        pending_cores == _safe_number(get(queue, "cores_pending"))
        total_cores == running_cores + pending_cores
    IN  [name |-> get(queue, "queue_name"),
         type |-> get(queue, "queue_type"),
         max_walltime |-> get(queue, "max_walltime"),
         jobs |-> [running |-> running_jobs, pending |-> pending_jobs],
         cores |-> [running |-> running_cores, pending |-> pending_cores],
         utilization_percent |->
            IF total_cores # 0
            THEN Some([num |-> running_cores * 100, den |-> total_cores])
            ELSE None]

\* a sort that puts a profile in front of the placed profiles of equal key
RECURSIVE insert_sorted_BeforeEquals(_, _)
insert_sorted_BeforeEquals(placed, q) ==
    LET key(p) == << p.jobs.pending, p.cores.pending >>
        less(a, b) == a[1] < b[1] \/ (a[1] = b[1] /\ a[2] < b[2])
    IN  IF placed = << >> THEN << q >>
        ELSE IF ~less(key(Head(placed)), key(q))
             THEN << q >> \o placed
             ELSE << Head(placed) >> \o insert_sorted_BeforeEquals(Tail(placed), q)

\* sorted(queue_profiles, key=lambda q: (q["jobs"]["pending"],
\* q["cores"]["pending"])), line 493: the sort is stable, every profile is put
\* behind the profiles already placed whose key is not greater than its own
RECURSIVE insert_sorted(_, _)
insert_sorted(placed, q) ==
    LET key(p) == << p.jobs.pending, p.cores.pending >>
        less(a, b) == a[1] < b[1] \/ (a[1] = b[1] /\ a[2] < b[2])
    IN  IF placed = << >> THEN << q >>
        ELSE IF less(key(q), key(Head(placed)))
             THEN << q >> \o placed
             ELSE << Head(placed) >> \o insert_sorted(Tail(placed), q)

RECURSIVE sorted(_, _)
sorted(queue_profiles, placed) ==
    IF queue_profiles = << >> THEN placed
    ELSE sorted(Tail(queue_profiles), insert_sorted(placed, Head(queue_profiles)))

\* lines 491-494
least_backlogged(queue_profiles) ==
    IF queue_profiles = << >> THEN None
    ELSE Some(sorted(queue_profiles, << >>)[1])

\* `entry.get(key, {}) or {}` followed by `section.get(key, []) or []`,
\* lines 455-460: the list under a key of a section that may be null
list_of(section, key) == IF section = None THEN << >> ELSE get(section[1], key)

\* re.sub(r"[^a-z0-9]", "", text.lower()), line 520, on the names of the
\* vocabulary
_normalize_cluster_slug(text) ==
    IF text = "Nautilus-1" THEN "nautilus1" ELSE text

\* lines 455-515: the profile of one document of the file
cluster_profile(entry) ==
    LET meta == get(entry, "cluster_metadata")
        systems == list_of(get(entry, "usage_data"), "systems")
        queues == list_of(get(entry, "queue_data"), "queues")
        nodes == list_of(get(entry, "queue_data"), "nodes")
        total_allocated ==
            sum([i \in 1..Len(systems) |->
                    _safe_number(get(systems[i], "hours_allocated"))])
        total_remaining ==
            sum([i \in 1..Len(systems) |->
                    _safe_number(get(systems[i], "hours_remaining"))])
        total_used ==
            sum([i \in 1..Len(systems) |->
                    _safe_number(get(systems[i], "hours_used"))])
        percent == percent_remaining(total_remaining, total_allocated)
        above_five(f) == \/ f.den > 0 /\ f.num > 5 * f.den
                         \/ f.den < 0 /\ f.num < 5 * f.den
        queue_profiles == [i \in 1..Len(queues) |-> queue_profile(queues[i])]
    IN  [cluster |-> meta.name,
         slug |-> _normalize_cluster_slug(meta.name),
         uri |-> meta.uri,
         status |-> meta.status,
         type |-> meta.type,
         usage |-> [total_allocated_hours |-> total_allocated,
                    total_used_hours |-> total_used,
                    total_remaining_hours |-> total_remaining,
                    percent_remaining |-> percent,
                    systems |-> systems],
         queues |-> queue_profiles,
         node_classes |-> nodes,
         placement_hint |->
            [least_backlogged_queue |-> least_backlogged(queue_profiles),
             has_capacity |-> percent = None \/ above_five(percent[1])]]

_build_cluster_profiles(usage_payload) ==
    [i \in 1..Len(usage_payload) |-> cluster_profile(usage_payload[i])]

\* the documents of the file: the metadata of one endpoint, its usage records
\* (numbers, as _parse_usage_output stores them) and its queue records
\* (strings, as _parse_queue_output stores them); a section without its list
\* ({}, which process_single_cluster stores when the query failed, or null)
\* is None
SystemRecords ==
    [system : {"jean"},
     hours_allocated : {[number |-> n] : n \in {-250, 0, 250}},
     hours_used : {[number |-> 0]},
     hours_remaining : {[number |-> n] : n \in {0, 250}}]

QueueNames == << "standard", "debug", "transfer", "background" >>

QueueRecords(name) ==
    [queue_name : {[string |-> name]},
     queue_type : {[string |-> "Exe"]},
     max_walltime : {[string |-> "168:00:00"]},
     jobs_running : {[string |-> "0"]},
     jobs_pending : {[string |-> s] : s \in {"2", "5"}},
     cores_running : {[string |-> CASE name = "standard" -> "1,000"
                                    [] name = "debug" -> " 40 "
                                    [] OTHER -> "N/A"]},
     cores_pending : {[string |-> s] : s \in {"N/A", "40", "100"}}]

RECURSIVE QueueLists(_)
QueueLists(n) ==
    IF n = 0 THEN { << >> }
    ELSE { Append(q, r) : q \in QueueLists(n - 1), r \in QueueRecords(QueueNames[n]) }

\* the metadata of a document: process_single_cluster stores the last segment
\* of the URI as the name, so `meta.get("name") or meta.get("uri")` is the name
Entry(usage, queue) ==
    [cluster_metadata |-> [name |-> "Nautilus-1", uri |-> "pw://u1/Nautilus-1",
                           status |-> "on", type |-> "existing"],
     usage_data |-> usage,
     queue_data |-> queue]

UsageSections ==
    {None} \cup
    { Some([systems |-> s]) :
        s \in UNION { [1..n -> SystemRecords] : n \in 0..MaxSystems } }

QueueSections ==
    {None} \cup
    { Some([queues |-> q, nodes |-> << >>]) :
        q \in UNION { QueueLists(n) : n \in 0..MaxQueues } }

\* the file as _load_cluster_usage_payload returns it: a list of documents
Payloads ==
    { << >> }
        \cup { << Entry(u, None) >> : u \in UsageSections }
        \cup { << Entry(Some([systems |-> << >>]), q) >> : q \in QueueSections }
        \cup { << Entry(None, None), Entry(u, Some([queues |-> q, nodes |-> << >>])) >> :
                 u \in UsageSections, q \in QueueLists(1) }

AIdle == view_pc = "idle" /\ view_input = << >> /\ view_output = None

ProfilesInit == view_pc = "profiles" /\ view_input \in Payloads /\ view_output = None

\* _handle_cluster_usage, lines 285-294, from the loaded payload on
BuildProfiles ==
    /\ view_pc = "profiles"
    /\ view_output' = Some(_build_cluster_profiles(view_input))
    /\ view_pc' = "done"
    /\ UNCHANGED << view_input, dvars, fvars, pvars, wvars >>

\* str.upper(), lines 43-49, on the texts of the vocabulary
upper(text) ==
    CASE text \in {"up", "Up"} -> "UP"
      [] text = "Down" -> "DOWN"
      [] text = "navy" -> "NAVY"
      [] text = "slurm" -> "SLURM"
      [] OTHER -> text

\* Counter((r.get(field) or "UNKNOWN").upper() for r in rows), lines 43-45,
\* as the function from the keys counted to their counts
counts(rows, field) ==
    LET key(i) == IF rows[i][field] \in {None, Some("")} THEN "UNKNOWN"
                  ELSE upper(rows[i][field][1])
    IN  [k \in { key(i) : i \in 1..Len(rows) } |->
            Cardinality({ i \in 1..Len(rows) : key(i) = k })]

\* round(x, 3) of the quotient x = a / b of two counts, b > 0, in thousandths:
\* the nearest thousandth, the even one of two equally near
round3(a, b) ==
    LET low == (1000 * a) \div b
        rest == 2 * ((1000 * a) % b)
    IN  IF rest > b \/ (rest = b /\ low % 2 = 1) THEN low + 1 ELSE low

\* an uptime ratio that compares the status as it is written
uptime_ratio_CaseSensitive(rows) ==
    IF rows = << >> THEN 0
    ELSE round3(Cardinality({ i \in 1..Len(rows) : rows[i].status = Some("UP") }),
                Len(rows))

\* lines 47-49 and 56: the rounded ratio, in thousandths
uptime_ratio(rows) ==
    IF rows = << >> THEN 0
    ELSE round3(Cardinality({ i \in 1..Len(rows) :
                    /\ rows[i].status # None
                    /\ upper(rows[i].status[1]) = "UP" }),
                Len(rows))

_status_summary(rows) ==
    [total_systems |-> Len(rows),
     status_counts |-> counts(rows, "status"),
     dsrc_counts |-> counts(rows, "dsrc"),
     scheduler_counts |-> counts(rows, "scheduler"),
     uptime_ratio |-> uptime_ratio(rows)]

\* lines 60-69, without the time of observation
build_payload(rows) ==
    [summary |-> _status_summary(rows), systems |-> rows]

\* the rows of the status page: status, dsrc and scheduler are optional strings
StatusRows ==
    [status : {None, Some(""), Some("UP"), Some("up"), Some("Down")},
     dsrc : {None, Some("navy")},
     scheduler : {Some("slurm")}]

SummaryInit ==
    /\ view_pc = "summary"
    /\ view_input \in UNION { [1..n -> StatusRows] : n \in 0..MaxRows }
    /\ view_output = None

\* generate_payload, lines 72-90, from the fetched rows on
BuildPayload ==
    /\ view_pc = "summary"
    /\ view_output' = Some(build_payload(view_input))
    /\ view_pc' = "done"
    /\ UNCHANGED << view_input, dvars, fvars, pvars, wvars >>

(***************************************************************************)
(* The loops of RefreshWorker and ClusterMonitorWorker, and their end at   *)
(* the server's shutdown (dashboard_server.py).                            *)
(***************************************************************************)
\* runs of cluster_monitor.py by the ClusterMonitorWorker
MaxRuns == 2

WIdle ==
    /\ refresh_stop = FALSE
    /\ monitor_stop = FALSE
    /\ cm_pc = "idle"
    /\ cm_runs = 0
    /\ cm_last = "none"
    /\ cm_active = 0
    /\ cm_interval = 0

\* RefreshWorker.run, line 97: the event is set, wait returns True and run ends
WorkerStop ==
    /\ pc[Worker] = "wait"
    /\ refresh_stop
    /\ pc' = [pc EXCEPT ![Worker] = "stopped"]
    /\ UNCHANGED << payload, last_error, last_refresh_ts, payload_lock, refresh_lock,
                    status_file, blocking, new_payload, exc, ret, snap, flight,
                    arrived_in, before, last_commit >>
    /\ UNCHANGED << fvars, pvars, wvars, avars >>

\* --cluster-monitor-interval, line 604: the values of the command line
IntervalSeconds == {30, 300}

\* the least interval of the workers, lines 93, 110 and 553
min_interval == 60

\* run_server, lines 550-563: the cluster worker is made with
\* run_immediately=True and with the interval max(60, ...) of line 553, of which
\* __init__ (line 110) takes max(60, ...) again, and started; taken as a step
\* of its own once the server is up
StartClusterWorker ==
    /\ pc[Main] = "serving"
    /\ cm_pc = "idle"
    /\ cm_pc' = "loop"
    /\ \E seconds \in IntervalSeconds :
          LET max(a, b) == IF a >= b THEN a ELSE b
          IN  cm_interval' = max(min_interval, max(min_interval, seconds))
    /\ UNCHANGED << refresh_stop, monitor_stop, cm_runs, cm_last, cm_active >>
    /\ UNCHANGED << dvars, fvars, pvars, avars >>

\* a _invoke_monitor that starts the script and does not wait for its end
MonitorInvoke_NoWait ==
    /\ cm_pc = "loop"
    /\ ~monitor_stop
    /\ cm_runs < MaxRuns
    /\ \E script_exists \in BOOLEAN :
          /\ cm_last' = IF script_exists THEN cm_last ELSE "missing"
          /\ monitor_stop' = ~script_exists
          /\ cm_active' = IF script_exists THEN cm_active + 1 ELSE cm_active
    /\ cm_pc' = "wait"
    /\ UNCHANGED << refresh_stop, cm_runs, cm_interval >>
    /\ UNCHANGED << dvars, fvars, pvars, avars >>

\* ClusterMonitorWorker.run, lines 119-120, and _invoke_monitor, lines 127-135:
\* while the event is not set: a missing script sets the event and
\* _invoke_monitor returns; otherwise subprocess.run starts the script
MonitorInvoke ==
    /\ cm_pc = "loop"
    /\ ~monitor_stop
    /\ cm_runs < MaxRuns
    /\ \E script_exists \in BOOLEAN :
          /\ cm_last' = IF script_exists THEN cm_last ELSE "missing"
          /\ monitor_stop' = ~script_exists
          /\ cm_active' = IF script_exists THEN cm_active + 1 ELSE cm_active
          /\ cm_pc' = IF script_exists THEN "running" ELSE "wait"
    /\ UNCHANGED << refresh_stop, cm_runs, cm_interval >>
    /\ UNCHANGED << dvars, fvars, pvars, avars >>

\* _invoke_monitor, lines 133-141: subprocess.run returns when the script has
\* ended; a non-zero exit status (CalledProcessError) and any other exception
\* are printed
MonitorReturn ==
    /\ cm_pc = "running"
    /\ \E outcome \in {"ok", "exit_nonzero", "exception"} : cm_last' = outcome
    /\ cm_active' = cm_active - 1
    /\ cm_runs' = cm_runs + 1
    /\ cm_pc' = "wait"
    /\ UNCHANGED << refresh_stop, monitor_stop, cm_interval >>
    /\ UNCHANGED << dvars, fvars, pvars, avars >>

\* line 119: the event is set, the loop is over
MonitorLoopExit ==
    /\ cm_pc = "loop"
    /\ monitor_stop
    /\ cm_pc' = "ended"
    /\ UNCHANGED << refresh_stop, monitor_stop, cm_runs, cm_last, cm_active,
                    cm_interval >>
    /\ UNCHANGED << dvars, fvars, pvars, avars >>

\* lines 121-122: self._stop_event.wait(self.interval): break when the event is
\* set, the next iteration when the wait timed out
MonitorWait ==
    /\ cm_pc = "wait"
    /\ cm_pc' = IF monitor_stop THEN "ended" ELSE "loop"
    /\ UNCHANGED << refresh_stop, monitor_stop, cm_runs, cm_last, cm_active,
                    cm_interval >>
    /\ UNCHANGED << dvars, fvars, pvars, avars >>

\* run_server, lines 576-584: serve_forever is over; worker.stop(),
\* cluster_worker.stop()
Shutdown ==
    /\ pc[Main] = "serving"
    /\ pc' = [pc EXCEPT ![Main] = "shutdown"]
    /\ refresh_stop' = TRUE
    /\ monitor_stop' = TRUE
    /\ UNCHANGED << cm_pc, cm_runs, cm_last, cm_active, cm_interval >>
    /\ UNCHANGED << payload, last_error, last_refresh_ts, payload_lock, refresh_lock,
                    status_file, blocking, new_payload, exc, ret, snap, flight,
                    arrived_in, before, last_commit >>
    /\ UNCHANGED << fvars, pvars, avars >>

\* the steps of the main thread up to serve_forever and of the RefreshWorker
RefreshSteps ==
    \/ StartupRefresh
    \/ StartThreads
    \/ WorkerRefresh
    \/ WorkerStop
    \/ \E t \in Threads : RefreshAcquire(t)
    \/ \E t \in Threads : Generate(t)
    \/ \E t \in Threads : Write(t)
    \/ \E t \in Threads : CommitLock(t)
    \/ \E t \in Threads : CommitPayload(t)
    \/ \E t \in Threads : CommitError(t)
    \/ \E t \in Threads : CommitTs(t)
    \/ \E t \in Threads : ExceptLock(t)
    \/ \E t \in Threads : ExceptError(t)
    \/ \E t \in Threads : Finally(t)
    \/ \E t \in Threads : Return(t)

\* the steps of the ClusterMonitorWorker
MonitorSteps ==
    \/ StartClusterWorker
    \/ MonitorInvoke
    \/ MonitorReturn
    \/ MonitorLoopExit
    \/ MonitorWait

WNext ==
    \/ RefreshSteps
    \/ MonitorSteps
    \/ Shutdown

vars == << dvars, fvars, pvars, wvars, avars >>
\* the cluster monitor is not running, no cluster_usage.json
FIdle == FInit /\ usage_file = UsageAbsent

Init == DInit /\ FIdle /\ PIdle /\ EIdle /\ WIdle /\ AIdle
Next == DNext
Spec == Init /\ [][Next]_vars

\* the dashboard's refresh threads are not running
DIdle == DInit /\ status_file = FileAbsent

InitFleet == FIdle /\ DIdle /\ PIdle /\ EIdle /\ WIdle /\ AIdle
NextFleet == FNext
SpecFleet == InitFleet /\ [][NextFleet]_vars

\* one run of the monitor, no request; an earlier run may have left a snapshot
InitMonitor == FInit /\ DIdle /\ PIdle /\ EIdle /\ WIdle /\ AIdle
NextMonitor == MNext
SpecMonitor == InitMonitor /\ [][NextMonitor]_vars

\* run() is one thread that keeps running: each of its calls returns
SpecMonitorLive == SpecMonitor /\ WF_vars(NextMonitor)

\* a call of process_single_cluster on its own
InitCollect == PInit /\ EIdle /\ DIdle /\ FIdle /\ WIdle /\ AIdle
NextCollect == PNext
SpecCollect == InitCollect /\ [][NextCollect]_vars

\* a parse of the table of pw clusters ls on its own
InitEnumerate == EInit /\ PIdle /\ DIdle /\ FIdle /\ WIdle /\ AIdle
NextEnumerate == ENext
SpecEnumerate == InitEnumerate /\ [][NextEnumerate]_vars

\* the server with its two workers and no requests: a thread that can take a
\* step takes one, a wait on the stop event ends; the shutdown may never come
InitRetry == DIdle /\ FIdle /\ PIdle /\ EIdle /\ WIdle /\ AIdle
NextRetry == WNext
SpecRetry ==
    InitRetry /\ [][NextRetry]_vars /\ WF_vars(RefreshSteps) /\ WF_vars(MonitorSteps)

\* One call of _build_cluster_profiles, for every file of the bounded vocabulary.
InitProfiles == ProfilesInit /\ DIdle /\ FIdle /\ PIdle /\ EIdle /\ WIdle
NextProfiles == BuildProfiles
SpecProfiles == InitProfiles /\ [][NextProfiles]_vars

\* One call of build_payload, for every list of rows of the bounded vocabulary.
InitSummary == SummaryInit /\ DIdle /\ FIdle /\ PIdle /\ EIdle /\ WIdle
NextSummary == BuildPayload
SpecSummary == InitSummary /\ [][NextSummary]_vars

\* One call of process_single_cluster on the usage tables of ScanLines.
InitScan == ScanInit /\ EIdle /\ DIdle /\ FIdle /\ WIdle /\ AIdle
NextScan == PNext
SpecScan == InitScan /\ [][NextScan]_vars


(***************************************************************************)
(* Properties of DashboardState (checked under Spec).                      *)
(***************************************************************************)

\* C1: refresh(blocking=False) at the lock while another refresh holds it: its
\* step is enabled (it does not wait), it returns ok=False "Refresh already in
\* progress." at once, it is not left at the lock, no producer execution is
\* started, and the payload, last_error and last_refresh_ts, the refresh lock
\* and the status file are as they were.
C1_NonBlockingBusyReturnsAtOnce ==
    /\ [](\A t \in Threads :
            (pc[t] = "acquire" /\ ~blocking[t] /\ refresh_lock # None)
                => ENABLED RefreshBusy(t))
    /\ [][\A t \in Threads :
            (pc[t] = "acquire" /\ ~blocking[t] /\ refresh_lock # None /\ pc'[t] # pc[t])
                => /\ pc'[t] = "returned"
                   /\ ~ret'[t].ok
                   /\ ret'[t].detail = "Refresh already in progress."
                   /\ Cache' = Cache
                   /\ flight' = flight
                   /\ refresh_lock' = refresh_lock
                   /\ status_file' = status_file]_vars

\* a non-blocking call has been refused while the refresh that held the lock is
\* still running its producer
C1_Witness ==
    \E t, u \in Threads :
        /\ pc[t] = "returned"
        /\ ret[t].detail = "Refresh already in progress."
        /\ refresh_lock = Some(u)
        /\ pc[u] \in ProducerPcs

\* C2: at most one thread is executing the producer (generate_payload,
\* write_payload) at any time.
C2_AtMostOneProducer ==
    Cardinality({t \in Threads : pc[t] \in ProducerPcs}) <= 1

\* one refresh runs the producer while a blocking refresh call of another thread
\* waits at the lock
C2_Witness ==
    \E t, u \in Threads :
        /\ t # u
        /\ pc[t] \in ProducerPcs
        /\ pc[u] = "acquire"
        /\ blocking[u]

\* C3: the triple snapshot() returns is the cache triple as it stood after one
\* completed commit or failure record (or the initial triple): at the return it
\* equals the triple left by the last of them, in all three components.
C3_SnapshotIsOneCommit ==
    \A r \in Readers : pc[r] = "snap_unlock" => snap[r] = last_commit

\* a snapshot of a committed payload is complete while a refresh stands at the
\* payload lock to commit or to record its failure
C3_Witness ==
    \E r \in Readers, w \in Threads :
        /\ pc[r] = "snap_unlock"
        /\ snap[r][1] # None
        /\ pc[w] \in {"commit_lock", "except_lock"}

\* C5: a thread holds the payload lock only for the assignments of refresh() and
\* the loads of snapshot(), never while it runs the producer; while a producer
\* runs, a reader at the payload lock waits at most for another reader; and the
\* payload snapshot() returns is the last committed one.
C5_ReaderNeverWaitsForProducer ==
    /\ \A t \in Threads :
          payload_lock = Some(t) =>
              pc[t] \in {"commit_payload", "commit_error", "commit_ts", "except_error",
                         "snap_payload", "snap_error", "snap_ts", "snap_unlock"}
    /\ \A r \in Readers :
          (pc[r] = "snap_lock" /\ \E w \in Threads : pc[w] \in ProducerPcs)
              => (ENABLED SnapLock(r) \/ \E q \in Readers : payload_lock = Some(q))
    /\ \A r \in Readers : pc[r] = "snap_unlock" => snap[r][1] = last_commit[1]

\* a snapshot() call that began after the running refresh took the refresh lock
\* has made all its loads while the producer of that refresh is still running
C5_Witness ==
    \E r \in Readers, w \in Threads :
        /\ pc[w] \in ProducerPcs
        /\ refresh_lock = Some(w)
        /\ arrived_in[r] = flight
        /\ pc[r] = "snap_unlock"

\* C6: when the producer of a refresh has raised and the failure is recorded,
\* the payload is the one the cache held when the refresh took the lock,
\* last_error is the message of the exception, and refresh returns ok=False.
C6_FailureKeepsSnapshot ==
    \A t \in Threads :
        (pc[t] = "finally" /\ exc[t] # None) =>
            /\ payload = before[1]
            /\ last_error = exc[t]
            /\ ~ret[t].ok

\* a refresh has failed after an earlier one had committed a payload
C6_Witness ==
    \E t \in Threads :
        /\ pc[t] = "finally"
        /\ exc[t] # None
        /\ payload # None
        /\ last_refresh_ts # None

\* C7: when the producer of a refresh has succeeded, refresh returns ok=True with
\* the payload the producer's result, last_error None and last_refresh_ts set;
\* and no snapshot() makes its loads while the three fields are being assigned.
C7_SuccessCommitsAtomically ==
    /\ \A t \in Threads :
          (pc[t] = "finally" /\ exc[t] = None) =>
              /\ ret[t].ok
              /\ payload = new_payload[t]
              /\ payload # None
              /\ last_error = None
              /\ last_refresh_ts # None
    /\ \A t \in Threads, r \in Readers :
          pc[t] \in {"commit_payload", "commit_error", "commit_ts"}
              => pc[r] \notin {"snap_payload", "snap_error", "snap_ts", "snap_unlock"}

\* a refresh has succeeded after a failed one: the recorded error is cleared
C7_Witness ==
    \E t \in Threads :
        /\ pc[t] = "finally"
        /\ ret[t].ok
        /\ before[2] # None
        /\ last_error = None

\* C8: the refresh lock is free whenever no refresh call is between its
\* acquisition and its release: a refresh that has returned, with success or
\* failure, does not hold it.
C8_LockFreeWhenNoRefreshRuns ==
    /\ (\A t \in Threads : pc[t] \notin RefreshBodyPcs) => refresh_lock = None
    /\ \A t \in Threads : refresh_lock = Some(t) => pc[t] \in RefreshBodyPcs

\* a refresh has returned after a failure and a later call has the lock
C8_Witness ==
    \E t, u \in Threads :
        /\ t # u
        /\ pc[t] = "returned"
        /\ ret[t].exc # None
        /\ refresh_lock = Some(u)
        /\ arrived_in[u] # 0

\* C9: a refresh trigger (the periodic worker, an HTTP refresh request, both
\* blocking) that arrived while a refresh was in flight does not execute the
\* producer itself.
C9_TriggersCollapse ==
    \A t \in {Worker} \cup Handlers :
        (arrived_in[t] # 0 /\ blocking[t]) => pc[t] \notin ProducerPcs

\* C10: when a refresh has failed, the cache holds the time of that failure
\* next to last_error.
C10_FailureTimestampRecorded ==
    \A t \in Threads :
        (pc[t] = "finally" /\ exc[t] # None) =>
            /\ last_error = exc[t]
            /\ last_refresh_ts = Some(flight)

\* C11: a status read that finds a committed payload next to the error of a
\* later failed refresh answers with that payload and with that error.
C11_StaleReadShowsError ==
    \A r \in Readers :
        (pc[r] = "snap_done" /\ snap[r][1] # None /\ snap[r][2] # None) =>
            /\ _handle_status_response(snap[r]).body = snap[r][1]
            /\ _handle_status_response(snap[r]).error = snap[r][2]

\* C12: once a payload has been committed or loaded at start-up the payload is
\* never absent again, and the tuple snapshot() returns carries a payload,
\* whatever refreshes succeeded or failed before.
C12_PayloadNeverAbsentAgain ==
    /\ [](\A r \in Readers :
            (pc[r] = "snap_unlock" /\ last_commit[1] # None) => snap[r][1] # None)
    /\ [][payload # None => payload' # None]_vars

\* snapshot() returns a payload with the error of a refresh that failed after
\* the payload was committed
C12_Witness ==
    \E r \in Readers :
        /\ pc[r] = "snap_unlock"
        /\ snap[r][1] # None
        /\ snap[r][2] # None
        /\ flight >= 2

\* C13: the status read answers 503 with last_error, or with "Data not ready
\* yet." when there is none, exactly when the cache holds no committed payload
\* at the moment of the read; when it holds one, it answers 200 with it.
C13_NotReadyIffNoSnapshot ==
    \A r \in Readers :
        pc[r] = "snap_unlock" =>
            LET resp == _handle_status_response(snap[r])
            IN  /\ resp.status = 503 <=> last_commit[1] = None
                /\ last_commit[1] = None =>
                      /\ resp.body = None
                      /\ resp.error = IF last_commit[2] = None
                                      THEN Some([kind |-> "Data not ready yet.", run |-> 0])
                                      ELSE last_commit[2]
                /\ last_commit[1] # None =>
                      /\ resp.status = 200
                      /\ resp.body = last_commit[1]

\* a status read finds no payload and the error of the failed first refresh
C13_Witness ==
    \E r \in Readers :
        /\ pc[r] = "snap_unlock"
        /\ snap[r][1] = None
        /\ snap[r][2] # None
        /\ _handle_status_response(snap[r]).status = 503

\* C4: a GET /api/cluster-usage request that looked for the snapshot when one
\* had been persisted completely is answered 200 with the last snapshot persisted
\* completely at that moment (the previous one while a new one is being written,
\* the new one once it is written): never 503 (unavailable), never a part of one.
C4_ReaderSeesCompleteSnapshot ==
    (rpc = "responded" /\ r_prev # None) =>
        /\ r_response.status = 200
        /\ r_response.clusters = r_prev[1]


(***************************************************************************)
(* Properties of one run of the monitor (checked under SpecMonitor).       *)
(***************************************************************************)
\* the failures of the pw clusters ls command
PwFailures == {"exit_nonzero", "exception"}

\* C14: in the fast watch every endpoint the collector is about to be called
\* for was outside the known set when the poll enumerated it: the list being
\* processed is the enumeration without the endpoints known at the poll, so a
\* known endpoint that is enumerated again, in the first poll or a later one,
\* is not collected.
C14_FastWatchCollectsOnlyUnknown ==
    mpc = "fw_collect" =>
        LET known_at_poll == known_clusters \ {clusters[j] : j \in 1..(idx - 1)}
        IN  /\ \A i \in idx..Len(clusters) : clusters[i] \notin known_at_poll
            /\ pw_result # "none" =>
                  clusters = SelectSeq(active_clusters, LAMBDA u : u \notin known_clusters)

\* the second poll of a window lists a known endpoint next to a new one; only
\* the new one is up for collection
C14_Witness ==
    /\ mpc = "fw_collect"
    /\ now = 2 * (fast_watch_interval + PollWork)
    /\ \E i \in 1..Len(active_clusters) : active_clusters[i] \in known_clusters
    /\ Len(clusters) = 1
    /\ idx = 1

\* C15: no poll starts once fast_watch_duration seconds of the window have
\* passed; the loop is then left for run(); and a fast watch that has begun
\* always comes to that end.
C15_FastWatchEndsWithBudget ==
    /\ [][now' # now => now < fast_watch_duration]_vars
    /\ [][(mpc = "fw_loop" /\ now >= fast_watch_duration) => mpc' = "final"]_vars
    /\ (mpc = "fw_loop") ~> (mpc = "final")

\* the window is over after two polls and the loop has returned
C15_Witness ==
    /\ mpc = "final"
    /\ now = 2 * (fast_watch_interval + PollWork)

\* C16: a fast-watch poll whose enumeration lists no endpoint outside the known
\* set (an empty or failed enumeration included) leaves the results, the known
\* set and the file as they were and calls neither the collector nor
\* save_results_to_json: the loop is at its head again.
C16_IdlePollDoesNothing ==
    [][(now' # now /\ \A i \in 1..Len(active_clusters') : active_clusters'[i] \in known_clusters)
          => /\ results' = results
             /\ known_clusters' = known_clusters
             /\ usage_file' = usage_file
             /\ persisted' = persisted
             /\ save_from' = save_from
             /\ clusters' = << >>
             /\ mpc' = "fw_loop"]_vars

\* a poll has listed known endpoints only and the loop is at its head
C16_Witness ==
    /\ mpc = "fw_loop"
    /\ now > 0
    /\ pw_result = "ok"
    /\ active_clusters # << >>
    /\ results # << >>

\* C17: in the fast watch, when the collector is called for the next new
\* endpoint (another one than those merged before it in this poll), the
\* documents merged before it are in the persisted snapshot.
C17_PersistAfterEachMerge ==
    (mpc = "fw_collect" /\ idx > 1 /\ \A j \in 1..(idx - 1) : clusters[j] # clusters[idx])
        => persisted = Some(DictValues(results))

\* the index in e of the first endpoint named n
FirstOf(e, n) ==
    CHOOSE k \in 1..Len(e) :
        /\ cluster_name(e[k]) = n
        /\ \A j \in 1..(k - 1) : cluster_name(e[j]) # n

C19_FailedEnumerationKeepsSnapshot ==
    /\ []((mpc = "cycle_done" /\ pw_result \in PwFailures) =>
             /\ active_clusters = << >>
             /\ results = << >>
             /\ usage_file \in {UsageAbsent, UsageJson(OldSnapshot)}
             /\ persisted = json_loads(usage_file))
    /\ [][results = << >> => (usage_file' = usage_file /\ persisted' = persisted)]_vars
    /\ [][(mpc = "cycle_done" /\ results = << >>) => mpc' = "fw_enter"]_vars

\* the enumeration of the full cycle failed while an earlier snapshot is on disk
C19_Witness ==
    /\ mpc = "cycle_done"
    /\ pw_result = "exit_nonzero"
    /\ usage_file = UsageJson(OldSnapshot)

\* C20: no failure of the pw clusters ls command leaves get_active_clusters as
\* an exception (run() is never left by one), and after a failure the list it
\* returned is empty.
C20_EnumerationNeverRaises ==
    /\ mpc # "crashed"
    /\ pw_result \in PwFailures => (active_clusters = << >> /\ clusters = << >>)

\* a poll of the fast watch whose command raised has returned the empty list
C20_Witness ==
    /\ pw_result = "exception"
    /\ mpc = "fw_loop"
    /\ now > 0
    /\ known_clusters # {}

(***************************************************************************)
(* Properties of one collection (SpecCollect) and of the parsers.          *)
(***************************************************************************)
\* C21: process_single_cluster isolates its two queries: whatever the outcome of
\* the usage query, the queue query is issued after it, a document is returned,
\* and in the document the section of a failed query is empty while the
\* section of a query that succeeded is its parsed output.
C21_QueriesIsolated ==
    /\ cpc \in {"queues", "returned"} => calls = << "show_usage", "show_queues" >>
    /\ cpc = "returned" =>
          /\ cluster_data # None
          /\ cluster_data[1].cluster_metadata.uri = cluster.uri
          /\ cluster_data[1].usage_data =
                IF usage_run.kind = "ok"
                THEN Some(_parse_usage_output(usage_run.stdout)) ELSE None
          /\ cluster_data[1].queue_data =
                IF queue_run.kind = "ok"
                THEN Some(_parse_queue_output(queue_run.stdout)) ELSE None

\* a document returned after a failed usage query, with the queues of the
\* queue query that followed it
C21_Witness ==
    /\ cpc = "returned"
    /\ usage_run.kind # "ok"
    /\ queue_run.kind = "ok"
    /\ cluster_data[1].usage_data = None
    /\ cluster_data[1].queue_data # None
    /\ cluster_data[1].queue_data[1].queues # << >>

(***************************************************************************)
(* Properties of the fleet snapshot (SpecMonitor, continued).              *)
(***************************************************************************)
\* C22: the snapshot has at most one document per cluster name, the name being
\* the last path segment of the document's URI; a collection, in the full cycle
\* or in a fast-watch merge, leaves under the endpoint's name the document just
\* collected, also when the name had a document of another URI, and leaves the
\* documents of the other names as they were.
C22_OneDocumentPerName ==
    [][ /\ \A i, j \in 1..Len(results') :
              results'[i][1] = results'[j][1] => i = j
        /\ \A i \in 1..Len(results') :
              results'[i][1] = results'[i][2].uri[Len(results'[i][2].uri)]
        /\ mpc \in {"collect", "fw_collect"} =>
              LET uri == clusters[idx]
                  name == uri[Len(uri)]
              IN  /\ \E i \in 1..Len(results') :
                        results'[i][1] = name /\ results'[i][2].uri = uri
                  /\ \A i \in 1..Len(results) :
                        results[i][1] # name => results'[i] = results[i]
                  /\ Len(results') =
                        IF \E i \in 1..Len(results) : results[i][1] = name
                        THEN Len(results) ELSE Len(results) + 1
      ]_vars

\* a fast-watch merge has replaced the document of pw://u1/a by the document
\* of pw://u2/a
C22_Witness ==
    /\ mpc = "save_open"
    /\ save_from = "fast_watch"
    /\ << "u1", "a" >> \in known_clusters
    /\ << "u2", "a" >> \in known_clusters
    /\ Len(results) = 1
    /\ results[1][2].uri = << "u2", "a" >>

\* C23: the list save_results_to_json writes (line 482) has the documents in
\* the order in which they were collected, also after a name collision and a
\* fast-watch merge: after every collection the document just collected is the
\* last of the list.
C23_PersistedInCollectionOrder ==
    [][ (mpc \in {"collect", "fw_collect"}) =>
            LET payload_list == DictValues(results')
            IN  payload_list[Len(payload_list)].uri = clusters[idx]
      ]_vars

(***************************************************************************)
(* Properties of the cache (Spec, continued).                              *)
(***************************************************************************)
\* C24: a failure to persist a newly built snapshot does not undo it in memory:
\* when write_payload has raised in a refresh, the payload the producer built
\* in that refresh is the cache's payload once the failure is handled.
C24_FailedWriteKeepsNewSnapshot ==
    \A t \in Threads :
        (pc[t] = "finally" /\ exc[t] # None /\ exc[t][1].kind = "write") =>
            payload = new_payload[t]

(***************************************************************************)
(* Properties of the workers' loops (SpecRetry).                           *)
(***************************************************************************)
\* C25: a failure ends neither worker: after a refresh of the RefreshWorker
\* that failed, the worker calls refresh again unless it is stopped; after a run
\* of the monitor that failed, the ClusterMonitorWorker runs it again unless it
\* is stopped; and once the producer of a refresh has succeeded and its payload
\* is written, last_error is cleared.
C25_FailuresRetried ==
    /\ (pc[Worker] = "returned" /\ ~ret[Worker].ok /\ flight < MaxFlights)
          ~> (pc[Worker] = "acquire" \/ refresh_stop)
    /\ \A n \in 0..(MaxRuns - 1) :
          (cm_pc = "wait" /\ cm_last \in {"exit_nonzero", "exception"} /\ cm_runs = n)
              ~> (cm_runs = n + 1 \/ monitor_stop)
    /\ (\E t \in Threads : pc[t] = "commit_lock") ~> (last_error = None)

\* the RefreshWorker calls refresh again while last_error holds the failure of
\* its previous refresh, and the ClusterMonitorWorker is about to run the
\* monitor again after a run that ended with a non-zero exit status
C25_Witness ==
    /\ pc[Worker] = "acquire"
    /\ last_error # None
    /\ last_error[1].run = 2
    /\ ~refresh_stop
    /\ cm_pc = "loop"
    /\ cm_runs = 1
    /\ cm_last = "exit_nonzero"
    /\ ~monitor_stop

\* C26: a node row of fewer than 6 tokens produces no record, and no record has
\* a field filled in for a missing token: every node record of a collected
\* document is made of the first six tokens of a line of the output that has
\* at least 6 tokens.
C26_ShortRowsAbsent ==
    (cpc = "returned" /\ cluster_data[1].queue_data # None) =>
        LET nodes == cluster_data[1].queue_data[1].nodes
            lines == queue_run.stdout
        IN  \A k \in 1..Len(nodes) :
                \E i \in 1..Len(lines) :
                    /\ Len(lines[i]) >= 6
                    /\ nodes[k].node_type = lines[i][1]
                    /\ nodes[k].nodes_available = lines[i][2]
                    /\ nodes[k].cores_per_node = lines[i][3]
                    /\ nodes[k].cores_available = lines[i][4]
                    /\ nodes[k].cores_running = lines[i][5]
                    /\ nodes[k].cores_free = lines[i][6]

\* C27: every queue record of a collected document is made of a line of the
\* output that has at least 12 tokens, and has the fields enabled and reserved,
\* each TRUE exactly when the line's 11th, respectively 12th, token is "Y".
C27_QueueRecordsHaveFlags ==
    (cpc = "returned" /\ cluster_data[1].queue_data # None) =>
        LET queues == cluster_data[1].queue_data[1].queues
            lines == queue_run.stdout
        IN  \A k \in 1..Len(queues) :
                /\ "enabled" \in DOMAIN queues[k]
                /\ "reserved" \in DOMAIN queues[k]
                /\ \E i \in 1..Len(lines) :
                      /\ Len(lines[i]) >= 12
                      /\ queues[k].queue_name = lines[i][1]
                      /\ queues[k].enabled = (lines[i][11] = "Y")
                      /\ queues[k].reserved = (lines[i][12] = "Y")

\* C28: a record is complete or absent: in a collected document the count
\* fields of every queue record (jobs and cores, running and pending) and of
\* every node record (nodes and cores available) are numbers, and every usage
\* record comes from a row whose allocated, used, remaining, percent and
\* background tokens are numbers.
C28_RecordsFullyNumeric ==
    cpc = "returned" =>
        /\ cluster_data[1].queue_data # None =>
              LET queues == cluster_data[1].queue_data[1].queues
                  nodes == cluster_data[1].queue_data[1].nodes
              IN  /\ \A k \in 1..Len(queues) :
                        /\ int(queues[k].jobs_running) # None
                        /\ int(queues[k].jobs_pending) # None
                        /\ int(queues[k].cores_running) # None
                        /\ int(queues[k].cores_pending) # None
                  /\ \A k \in 1..Len(nodes) :
                        /\ int(nodes[k].nodes_available) # None
                        /\ int(nodes[k].cores_available) # None
        /\ cluster_data[1].usage_data # None =>
              LET systems == cluster_data[1].usage_data[1].systems
                  lines == usage_run.stdout
              IN  \A k \in 1..Len(systems) :
                      \E i \in 1..Len(lines) :
                          /\ Len(lines[i]) >= 7
                          /\ systems[k].system = lines[i][1]
                          /\ int(lines[i][3]) = Some(systems[k].hours_allocated)
                          /\ int(lines[i][4]) = Some(systems[k].hours_used)
                          /\ int(lines[i][5]) = Some(systems[k].hours_remaining)
                          /\ float(rstrip_percent(lines[i][6]))
                                = Some(systems[k].percent_remaining)
                          /\ int(lines[i][7]) = Some(systems[k].background_hours_used)

\* the line i of a show_usage output is a row of the table: the last header
\* line before it is followed by a separator line before it, and it is itself
\* neither a header nor a separator nor blank
is_usage_table_row(lines, i) ==
    LET headers == { h \in 1..(i - 1) : is_usage_header(lines[h]) }
    IN  /\ headers # {}
        /\ \E s \in 1..(i - 1) :
              /\ \A h \in headers : h < s
              /\ is_usage_separator(lines[s])
        /\ ~is_usage_header(lines[i])
        /\ ~is_usage_separator(lines[i])
        /\ lines[i] # << >>

\* C29: the usage records of a collected document are, in the order of the
\* lines, those of the table rows that have at least 7 tokens of which tokens
\* 3-5 and 7 are integers and token 6, without its trailing %, is a number; the
\* fields of a record are the values of these tokens; the canonical output
\* yields the record of jean.
C29_UsageRecordExactly ==
    (cpc = "returned" /\ usage_run.kind = "ok") =>
        LET lines == usage_run.stdout
            systems == cluster_data[1].usage_data[1].systems
            accepted == { i \in 1..Len(lines) :
                            /\ is_usage_table_row(lines, i)
                            /\ Len(lines[i]) >= 7
                            /\ \A j \in {3, 4, 5, 7} : lines[i][j] \in DOMAIN IntValue
                            /\ rstrip_percent(lines[i][6]) \in DOMAIN FloatValue }
            rank(i) == Cardinality({ j \in accepted : j <= i })
        IN  /\ Len(systems) = Cardinality(accepted)
            /\ \A i \in accepted :
                  systems[rank(i)] =
                      [system |-> lines[i][1],
                       subproject |-> lines[i][2],
                       hours_allocated |-> IntValue[lines[i][3]],
                       hours_used |-> IntValue[lines[i][4]],
                       hours_remaining |-> IntValue[lines[i][5]],
                       percent_remaining |-> FloatValue[rstrip_percent(lines[i][6])],
                       background_hours_used |-> IntValue[lines[i][7]]]
            /\ lines = << UsageHeader, UsageSeparator, UsageRow >> =>
                  systems = << [system |-> "jean",
                                subproject |-> "AFSNW27526RYZ",
                                hours_allocated |-> 250000,
                                hours_used |-> 0,
                                hours_remaining |-> 250000,
                                percent_remaining |-> 100 * 100,
                                background_hours_used |-> 0] >>

\* the canonical output has been parsed into the record of jean
C29_Witness ==
    /\ cpc = "returned"
    /\ usage_run.kind = "ok"
    /\ usage_run.stdout = << UsageHeader, UsageSeparator, UsageRow >>
    /\ Len(cluster_data[1].usage_data[1].systems) = 1
    /\ cluster_data[1].usage_data[1].systems[1].system = "jean"

(***************************************************************************)
(* Properties of the enumeration parser (SpecEnumerate).                   *)
(***************************************************************************)
\* the positions at which the non-empty columns of a line begin: a token that
\* is not a pipe, at the start of the line or after a pipe
column_starts(line) ==
    { j \in 1..Len(line) : line[j] # "|" /\ (j = 1 \/ line[j - 1] = "|") }

\* the k-th non-empty column of a line: the tokens from its start to the next
\* pipe or the end of the line
column(line, k) ==
    LET starts == column_starts(line)
        first == CHOOSE j \in starts : Cardinality({ x \in starts : x <= j }) = k
        last == CHOOSE e \in first..Len(line) :
                    /\ \A x \in first..e : line[x] # "|"
                    /\ (e = Len(line) \/ line[e + 1] = "|")
    IN  SubSeq(line, first, last)

RECURSIVE hours(_, _)
hours(systems, field) ==
    IF systems = << >> THEN 0
    ELSE Head(systems)[field].number + hours(Tail(systems), field)

C31_PercentRemaining ==
    view_pc = "done" /\ view_output # None =>
        \A i \in 1..Len(view_input) :
            LET systems == IF view_input[i].usage_data = None THEN << >>
                           ELSE view_input[i].usage_data[1].systems
                allocated == hours(systems, "hours_allocated")
                remaining == hours(systems, "hours_remaining")
                percent == view_output[1][i].usage.percent_remaining
            IN  /\ percent = None <=> allocated = 0
                /\ percent # None =>
                      percent[1].num * allocated = remaining * 100 * percent[1].den

\* a profile with a null percent_remaining has been built of usage records
\* whose allocations are not all zero and sum to zero
C31_Witness ==
    /\ view_pc = "done"
    /\ \E i \in 1..Len(view_input) :
          /\ view_input[i].usage_data # None
          /\ \E k \in 1..Len(view_input[i].usage_data[1].systems) :
                view_input[i].usage_data[1].systems[k].hours_allocated.number < 0
          /\ view_output[1][i].usage.percent_remaining = None

(***************************************************************************)
(* C32: the least-backlogged queue hint of a cluster with at least one     *)
(* queue is the queue profile with the lexicographically smallest          *)
(* (pending_jobs, pending_cores) pair, the earliest in input order among   *)
(* equals; it is null when the cluster has no queues.  For the queues      *)
(* [(5, 40), (2, 100)] the second is selected.                             *)
(***************************************************************************)
C32_LeastBacklogged ==
    view_pc = "done" /\ view_output # None =>
        \A i \in 1..Len(view_input) :
            LET profile == view_output[1][i]
                queues == profile.queues
                hint == profile.placement_hint.least_backlogged_queue
                pair(k) == << queues[k].jobs.pending, queues[k].cores.pending >>
                smaller(a, b) == a[1] < b[1] \/ (a[1] = b[1] /\ a[2] < b[2])
                pending(q) == << q.jobs_pending.string, q.cores_pending.string >>
            IN  /\ queues = << >> <=> hint = None
                /\ queues # << >> =>
                      \E k \in 1..Len(queues) :
                          /\ hint = Some(queues[k])
                          /\ \A j \in 1..Len(queues) : ~smaller(pair(j), pair(k))
                          /\ \A j \in 1..(k - 1) : pair(j) # pair(k)
                /\ ( /\ view_input[i].queue_data # None
                     /\ Len(view_input[i].queue_data[1].queues) = 2
                     /\ pending(view_input[i].queue_data[1].queues[1]) = << "5", "40" >>
                     /\ pending(view_input[i].queue_data[1].queues[2]) = << "2", "100" >> )
                   => hint = Some(queues[2])

\* a hint has been chosen among three queues of which the second and the third
\* have the smallest pair and the first a greater one
C32_Witness ==
    /\ view_pc = "done"
    /\ Len(view_input) = 1
    /\ LET queues == view_output[1][1].queues
           pair(k) == << queues[k].jobs.pending, queues[k].cores.pending >>
       IN  /\ Len(queues) = 3
           /\ pair(2) = pair(3)
           /\ pair(1)[1] > pair(2)[1]
           /\ view_output[1][1].placement_hint.least_backlogged_queue = Some(queues[2])

\* the hint of the queues [(5, 40), (2, 100)] has been chosen
C32_WitnessExample ==
    /\ view_pc = "done"
    /\ Len(view_input) = 1
    /\ view_input[1].queue_data # None
    /\ Len(view_input[1].queue_data[1].queues) = 2
    /\ view_input[1].queue_data[1].queues[1].jobs_pending.string = "5"
    /\ view_input[1].queue_data[1].queues[1].cores_pending.string = "40"
    /\ view_input[1].queue_data[1].queues[2].jobs_pending.string = "2"
    /\ view_input[1].queue_data[1].queues[2].cores_pending.string = "100"

(***************************************************************************)
(* C34: the fleet summary's uptime_ratio is the number of systems whose    *)
(* upper-cased status is "UP" divided by the number of systems, rounded to *)
(* 3 decimals, and 0.0 when there are no systems; the per-status counts    *)
(* sum to total_systems.                                                   *)
(***************************************************************************)
\* the sum of the counts of a Counter
RECURSIVE total(_, _)
total(counter, keys) ==
    IF keys = {} THEN 0
    ELSE LET k == CHOOSE x \in keys : TRUE
         IN  counter[k] + total(counter, keys \ {k})

C34_UptimeRatio ==
    view_pc = "done" /\ view_output # None =>
        LET rows == view_input
            summary == view_output[1].summary
            up == Cardinality({ i \in 1..Len(rows) :
                                  rows[i].status \in {Some("UP"), Some("up")} })
            distance == 1000 * up - summary.uptime_ratio * Len(rows)
        IN  /\ rows = << >> => summary.uptime_ratio = 0
            /\ 2 * distance <= Len(rows) /\ -2 * distance <= Len(rows)
            /\ summary.total_systems = Len(rows)
            /\ total(summary.status_counts, DOMAIN summary.status_counts)
                  = summary.total_systems

\* a summary has been built of three rows of which one is "UP", one is "up"
\* and one has no status: the ratio 2/3 is rounded up to 0.667
C34_Witness ==
    /\ view_pc = "done"
    /\ Len(view_input) = 3
    /\ { view_input[i].status : i \in 1..3 } = { Some("UP"), Some("up"), None }
    /\ view_output[1].summary.uptime_ratio = 667

(***************************************************************************)
(* C35: in the usage parser a separator line never ends table mode, it     *)
(* only marks that data begins: rows between the header and its first      *)
(* separator are not emitted, rows after any number of separators are      *)
(* still parsed, and a later header line resets the flag, so that rows are *)
(* withheld again until the next separator.                                *)
(***************************************************************************)
\* line i of the text is the row of the canonical example and, with sep the
\* first tokens of the separator lines, there is a separator between the last
\* header line above it and the line itself
is_open_row(lines, i, sep) ==
    /\ lines[i] = UsageRow
    /\ \E h \in 1..(i - 1) :
          /\ lines[h] = UsageHeader
          /\ \A k \in (h + 1)..(i - 1) : lines[k] # UsageHeader
          /\ \E s \in (h + 1)..(i - 1) : lines[s][1] \in sep

\* as stated, a separator being a line that starts with = or with -
C35_SeparatorStartsData ==
    (cpc = "returned" /\ usage_run.kind = "ok") =>
        LET lines == usage_run.stdout
            systems == cluster_data[1].usage_data[1].systems
        IN  Len(systems) =
                Cardinality({ i \in 1..Len(lines) :
                                is_open_row(lines, i, {"========", "--------", "----"}) })

\* amended: a separator is a line that starts with = or with eight -
C35_SeparatorOfEightStartsData ==
    (cpc = "returned" /\ usage_run.kind = "ok") =>
        LET lines == usage_run.stdout
            systems == cluster_data[1].usage_data[1].systems
        IN  Len(systems) =
                Cardinality({ i \in 1..Len(lines) :
                                is_open_row(lines, i, {"========", "--------"}) })

\* a table has been parsed whose first row stands before the first separator
\* and whose second row stands behind two separators: one record
C35_Witness ==
    /\ cpc = "returned"
    /\ usage_run.kind = "ok"
    /\ usage_run.stdout =
          << UsageHeader, UsageRow, UsageSeparator, << "--------" >>, UsageRow >>
    /\ Len(cluster_data[1].usage_data[1].systems) = 1

\* a table has been parsed whose row stands behind a second header that no
\* separator follows: no record
C35_WitnessReset ==
    /\ cpc = "returned"
    /\ usage_run.kind = "ok"
    /\ usage_run.stdout = << UsageHeader, UsageSeparator, UsageHeader, UsageRow >>
    /\ cluster_data[1].usage_data[1].systems = << >>

(***************************************************************************)
(* C36: at the end of the full cycle every endpoint returned by that       *)
(* cycle's enumeration has its URI in the known set and a document stored  *)
(* under its name in the snapshot, even when both of its remote queries    *)
(* failed; such an endpoint is not collected again during the fast-watch   *)
(* window of the same run.                                                 *)
(***************************************************************************)
\* the full cycle is over: every enumerated endpoint is known and has a
\* document under its name
CycleEndKnowsAll ==
    mpc = "cycle_done" =>
        \A i \in 1..Len(active_clusters) :
            /\ active_clusters[i] \in known_clusters
            /\ \E k \in 1..Len(results) :
                  /\ results[k][1] = cluster_name(active_clusters[i])
                  /\ results[k][2].name = cluster_name(active_clusters[i])

\* an endpoint that awaits its collection in the fast watch was not known
\* when it was polled: it can be known only through the collection of the
\* same URI earlier in the list of the same poll
FastWatchCollectsUnknown ==
    mpc = "fw_collect" =>
        \A i \in idx..Len(clusters) :
            clusters[i] \in known_clusters =>
                \E j \in 1..(idx - 1) : clusters[j] = clusters[i]

C36_EnumeratedAreKnown ==
    /\ []CycleEndKnowsAll
    /\ [][known_clusters \subseteq known_clusters']_vars
    /\ []FastWatchCollectsUnknown

\* the full cycle is over and has stored the document of an endpoint whose
\* two queries failed
C36_Witness ==
    /\ mpc = "cycle_done"
    /\ \E i \in 1..Len(active_clusters) :
          /\ active_clusters[i] \in known_clusters
          /\ \E k \in 1..Len(results) :
                /\ results[k][2].uri = active_clusters[i]
                /\ ~results[k][2].usage_data
                /\ ~results[k][2].queue_data

(***************************************************************************)
(* C37: within one run, provided no single enumeration result lists the    *)
(* same URI twice, the collector is invoked at most once per endpoint URI  *)
(* across the full cycle and all fast-watch polls, and the known set only  *)
(* grows.  Every invocation, in the full cycle or after a poll, is for a   *)
(* URI outside the known set when the list it comes from names no URI      *)
(* twice, and puts that URI into the known set, which no step shrinks: so  *)
(* no URI is collected a second time.                                      *)
(***************************************************************************)
C37_CollectedAtMostOnce ==
    [][ /\ known_clusters \subseteq known_clusters'
        /\ (mpc \in {"collect", "fw_collect"} /\ idx' # idx) =>
              /\ (\A i, j \in 1..Len(clusters) : clusters[i] = clusters[j] => i = j)
                    => clusters[idx] \notin known_clusters
              /\ known_clusters' = known_clusters \cup {clusters[idx]}
        /\ known_clusters' # known_clusters =>
              mpc \in {"collect", "fw_collect"} /\ idx' # idx
      ]_vars

\* the second endpoint of a poll's list of two new endpoints is about to be
\* collected, the full cycle having collected another endpoint before
C37_Witness ==
    /\ mpc = "fw_collect"
    /\ Len(clusters) = 2
    /\ idx = 2
    /\ clusters[1] # clusters[2]
    /\ Cardinality(known_clusters) = 2
    /\ clusters[2] \notin known_clusters

(***************************************************************************)
(* C38: the ClusterMonitorWorker never has two monitor runs in progress at *)
(* once: each run is awaited to completion, successful or failed, before   *)
(* the interval wait (at least 60 s) begins; a stop request observed       *)
(* during the wait ends the loop without another run, and a missing script *)
(* stops the worker for good.                                              *)
(***************************************************************************)
\* at most one run is in progress, and none while the worker waits or has ended
OneRunAtATime ==
    /\ cm_active <= 1
    /\ cm_pc \in {"wait", "loop", "ended"} => cm_active = 0
    /\ cm_pc # "idle" => cm_interval >= 60

C38_RunsOneAtATime ==
    /\ []OneRunAtATime
    /\ [][ /\ (cm_pc = "wait" /\ monitor_stop /\ cm_pc' # cm_pc) => cm_pc' = "ended"
           /\ (cm_pc' = "wait" /\ cm_pc # "wait" /\ cm_last' # "missing") =>
                 /\ cm_pc = "running"
                 /\ cm_runs' = cm_runs + 1
                 /\ cm_last' \in {"ok", "exit_nonzero", "exception"}
           /\ (cm_last' = "missing" /\ cm_last # "missing") => monitor_stop'
           /\ (cm_pc = "ended" \/ cm_last = "missing") =>
                 /\ cm_pc' \in {cm_pc, "ended"}
                 /\ cm_runs' = cm_runs
                 /\ cm_active' = cm_active
                 /\ monitor_stop'
         ]_vars

\* the worker waits after a run that failed and that followed a first run
C38_Witness ==
    /\ cm_pc = "wait"
    /\ cm_runs = 2
    /\ cm_last = "exit_nonzero"
    /\ cm_active = 0
    /\ ~monitor_stop
    /\ cm_interval = 60

\* the worker has ended after it found the script missing, a run having been
\* made before
C38_WitnessMissing ==
    /\ cm_pc = "ended"
    /\ cm_last = "missing"
    /\ cm_runs = 1
    /\ pc[Main] = "serving"

====
